---- MODULE Spec2Model ----
(***************************************************************************)
(* State-update engine of the Hugoland idle/RPG game (useGameState hook).  *)
(* The whole save snapshot is one record, gameState; every exposed         *)
(* operation is an updater gameState -> gameState run through              *)
(* updateGameState, exactly as in the source.                              *)
(*                                                                         *)
(* Units.  Wall-clock time is counted in minutes.  Garden water is kept in *)
(* minutes of water (source: hours), growth in 1/120 cm (0.5 cm per hour   *)
(* is one unit per minute).  The streak multiplier 1 + 0.1*streak is kept  *)
(* in tenths.  Objects that the source shares by reference (an equipped    *)
(* weapon is the same object as the inventory entry) live in a heap        *)
(* indexed by address; collections and the equipped slot hold addresses.   *)
(***************************************************************************)
EXTENDS Integers, Sequences, FiniteSets, TLC

VARIABLES gameState, storage, now, enc, hook

vars == <<gameState, storage, now, enc, hook>>

---------------------------------------------------------------------------
(* Bounds of the model *)

MaxWeapons == 2
MaxArmor == 1
MaxRelics == 2
MaxItemLevel == 2
MaxLevel == 52
MaxZone == 3
MaxDeaths == 5
MaxRevivals == 5
MaxStreak == 4
MaxNow == 4400
MaxCoins == 2600
MaxGems == 200
MaxShinyGems == 1
MaxPrestige == 1
MaxFallbacks == 3
MaxItemsSold == 1
MaxItemsUpgraded == 2

---------------------------------------------------------------------------
(* Program constants *)

BaseAtk == 20
BaseDef == 10
BaseHp == 100
MaxSurvivalLives == 3
MaxOfflineHours == 8
SeedCost == 1000
WaterCost == 1000
MaxGrowthCm == 100
RollCost == 100
PrestigeLevel == 50
MarketCycle == 5
MarketSize == 4
MinutesPerHour == 60
MinutesPerDay == 1440

Null == [isNull |-> TRUE]

(* the second hook (src/hooks/useGameState.ts) before initializeGame has  *)
(* run: no state, loading, nothing stored, no timer, no write in flight  *)
Unmounted ==
  [gameState |-> Null, isLoading |-> TRUE, stored |-> Null,
   timers |-> <<>>, writes |-> {}, wasReset |-> FALSE]
NoItem == -1
NoDate == -1
CloneSlot == 0

(* relic objects of the market and of the player share one heap *)
RelicAddrs == 1..(MarketSize + MaxRelics)

Min(a, b) == IF a < b THEN a ELSE b
Max(a, b) == IF a > b THEN a ELSE b

RECURSIVE SumOver(_, _)
SumOver(S, f) ==
  IF S = {} THEN 0
  ELSE LET x == CHOOSE y \in S : TRUE IN f[x] + SumOver(S \ {x}, f)

---------------------------------------------------------------------------
(* External content generators: each returns one of a few fully formed    *)
(* entities.                                                              *)

WeaponTemplates ==
  { [id |-> 0, level |-> 1, baseAtk |-> 15, durability |-> 3, maxDurability |-> 3,
     upgradeCost |-> 10, sellPrice |-> 20] }

ArmorTemplates ==
  { [id |-> 0, level |-> 1, baseDef |-> 8, durability |-> 2, maxDurability |-> 2,
     upgradeCost |-> 10, sellPrice |-> 20] }

RelicTemplates ==
  { [id |-> 0, type |-> "weapon", baseAtk |-> 30, baseDef |-> 0, level |-> 1,
     cost |-> 20, upgradeCost |-> 15],
    [id |-> 0, type |-> "armor", baseAtk |-> 0, baseDef |-> 25, level |-> 1,
     cost |-> 20, upgradeCost |-> 15] }

Enemies ==
  { [hp |-> 40, atk |-> 60, def |-> 0],
    [hp |-> 20, atk |-> 115, def |-> 5] }

AchievementReward == [coins |-> 50, gems |-> 5]

SkillEffectFlags ==
  { "skipCardUsed", "metalShieldUsed", "dodgeUsed", "truthLiesActive",
    "lightningChainActive", "rampActive", "berserkerActive", "vampiricActive",
    "phoenixUsed", "timeSlowActive", "criticalStrikeActive",
    "shieldWallActive", "poisonBladeActive", "arcaneShieldActive",
    "battleFrenzyActive", "elementalMasteryActive", "shadowStepUsed",
    "healingAuraActive", "doubleStrikeActive", "manaShieldActive",
    "berserkRageActive", "divineProtectionUsed", "stormCallActive",
    "bloodPactActive", "frostArmorActive", "fireballActive" }

(* skillEffects is the set of flags that are true; all false is {} *)
NoSkillEffects == {}

---------------------------------------------------------------------------
(* createInitialGameState.  absent is bookkeeping: the nested properties  *)
(* <<object, property>> that a snapshot left out, which read as undefined *)
(* until something assigns them; it is empty in every constructed state.  *)

createInitialGameState(t) ==
  [ coins |-> 500,
    gems |-> 50,
    shinyGems |-> 0,
    zone |-> 1,
    playerStats |-> [hp |-> 100, maxHp |-> 100, atk |-> 20, def |-> 10],
    inventory |->
      [ weaponObjs |-> [a \in 0..MaxWeapons |-> Null],
        armorObjs |-> [a \in 0..MaxArmor |-> Null],
        relicObjs |-> [a \in RelicAddrs |-> Null],
        weapons |-> {},
        armor |-> {},
        relics |-> {},
        currentWeapon |-> NoItem,
        currentArmor |-> NoItem,
        equippedRelics |-> {} ],
    currentEnemy |-> Null,
    inCombat |-> FALSE,
    achievements |-> {1},
    knowledgeStreak |-> [current |-> 0, multiplier |-> 10],
    gameMode |-> [current |-> "normal", survivalLives |-> 3],
    statistics |-> [totalDeaths |-> 0, totalVictories |-> 0, revivals |-> 0,
                    itemsUpgraded |-> 0, itemsSold |-> 0],
    cheats |-> [infiniteCoins |-> FALSE],
    yojefMarket |-> [items |-> {}, lastRefresh |-> t,
                     nextRefresh |-> t + MarketCycle],
    dailyRewards |-> [lastClaimDate |-> NoDate, currentStreak |-> 0,
                      maxStreak |-> 0, availableReward |-> Null,
                      rewardHistory |-> <<>>],
    progression |-> [level |-> 1, experience |-> 0, experienceToNext |-> 100,
                     skillPoints |-> 0, prestigeLevel |-> 0],
    offlineProgress |-> [lastSaveTime |-> t, offlineCoins |-> 0,
                         offlineGems |-> 0],
    gardenOfGrowth |-> [isPlanted |-> FALSE, lastWatered |-> NoDate,
                        waterHoursRemaining |-> 0, growthCm |-> 0,
                        totalGrowthBonus |-> 0],
    hasUsedRevival |-> FALSE,
    skills |-> [activeMenuSkill |-> Null],
    adventureSkills |-> [selectedSkill |-> "none",
                         showSelectionModal |-> FALSE,
                         skillEffects |-> NoSkillEffects],
    absent |-> {} ]

---------------------------------------------------------------------------
(* Attribute formulas.  The source repeats them inline in every handler;  *)
(* two variants exist: with the durability ratio (equip, upgrade, attack) *)
(* and without it (relic handlers, setGameMode, rollSkill).               *)

relicAtkBonus(s) ==
  SumOver({a \in s.inventory.equippedRelics :
             s.inventory.relicObjs[a].type = "weapon"},
          [a \in RelicAddrs |->
             IF s.inventory.relicObjs[a] = Null THEN 0
             ELSE s.inventory.relicObjs[a].baseAtk
                  + (s.inventory.relicObjs[a].level - 1) * 22])

relicDefBonus(s) ==
  SumOver({a \in s.inventory.equippedRelics :
             s.inventory.relicObjs[a].type = "armor"},
          [a \in RelicAddrs |->
             IF s.inventory.relicObjs[a] = Null THEN 0
             ELSE s.inventory.relicObjs[a].baseDef
                  + (s.inventory.relicObjs[a].level - 1) * 15])

(* floor(x * (1 + totalGrowthBonus / 100)); totalGrowthBonus is kept in   *)
(* 1/120 percent                                                          *)
gardenBonus(x, s) == (x * (12000 + s.gardenOfGrowth.totalGrowthBonus)) \div 12000

weaponAtk(w) == w.baseAtk + (w.level - 1) * 10
armorDef(a) == a.baseDef + (a.level - 1) * 5

effectiveWeaponAtk(w) == (weaponAtk(w) * w.durability) \div w.maxDurability
effectiveArmorDef(a) == (armorDef(a) * a.durability) \div a.maxDurability

currentWeaponObj(s) == s.inventory.weaponObjs[s.inventory.currentWeapon]
currentArmorObj(s) == s.inventory.armorObjs[s.inventory.currentArmor]

(* atk as recomputed by equipWeapon, upgradeWeapon and attack from weapon w *)
atkWithDurability(s, w) ==
  gardenBonus(BaseAtk + effectiveWeaponAtk(w) + relicAtkBonus(s), s)

defWithDurability(s, a) ==
  gardenBonus(BaseDef + effectiveArmorDef(a) + relicDefBonus(s), s)

(* atk and def as recomputed by the relic handlers and setGameMode         *)
fullWeaponAtk(s) ==
  IF s.inventory.currentWeapon # NoItem THEN weaponAtk(currentWeaponObj(s)) ELSE 0

fullArmorDef(s) ==
  IF s.inventory.currentArmor # NoItem THEN armorDef(currentArmorObj(s)) ELSE 0

recalcNormalStats(s) ==
  [s EXCEPT !.playerStats.atk =
              gardenBonus(BaseAtk + fullWeaponAtk(s) + relicAtkBonus(s), s),
            !.playerStats.def =
              gardenBonus(BaseDef + fullArmorDef(s) + relicDefBonus(s), s)]

---------------------------------------------------------------------------
(* updateGameState: run the updater's result through the achievement      *)
(* evaluator (external; `unlocked` is what it returns) and credit rewards *)

updateGameState(s, unlocked) ==
  [s EXCEPT !.achievements = @ \ unlocked,
            !.coins = @ + Cardinality(unlocked \cap s.achievements) * AchievementReward.coins,
            !.gems = @ + Cardinality(unlocked \cap s.achievements) * AchievementReward.gems]

---------------------------------------------------------------------------
(* Equipment handlers (updater bodies) *)

wearWeapon(s) ==
  IF s.inventory.currentWeapon # NoItem
  THEN [s EXCEPT !.inventory.weaponObjs[s.inventory.currentWeapon].durability =
                   Max(0, @ - 1)]
  ELSE s

wearArmor(s) ==
  IF s.inventory.currentArmor # NoItem
  THEN [s EXCEPT !.inventory.armorObjs[s.inventory.currentArmor].durability =
                   Max(0, @ - 1)]
  ELSE s

equipWeapon(s, a) ==
  LET s1 == wearWeapon(s)
      s2 == [s1 EXCEPT !.inventory.currentWeapon = a]
  IN [s2 EXCEPT !.playerStats.atk = atkWithDurability(s2, s2.inventory.weaponObjs[a])]

equipArmor(s, a) ==
  LET s1 == wearArmor(s)
      s2 == [s1 EXCEPT !.inventory.currentArmor = a]
  IN [s2 EXCEPT !.playerStats.def = defWithDurability(s2, s2.inventory.armorObjs[a])]

currentWeaponId(s) ==
  IF s.inventory.currentWeapon = NoItem THEN NoItem ELSE currentWeaponObj(s).id

currentArmorId(s) ==
  IF s.inventory.currentArmor = NoItem THEN NoItem ELSE currentArmorObj(s).id

upgradedItem(w) ==
  [w EXCEPT !.level = @ + 1,
            !.upgradeCost = (@ * 3) \div 2,
            !.sellPrice = (@ * 6) \div 5]

(* upgradeWeapon without its gem check *)
upgradeWeaponOnCredit(s, weaponId) ==
  IF weaponId \notin s.inventory.weapons
  THEN s
  ELSE LET s1 == [s EXCEPT !.gems = @ - s.inventory.weaponObjs[weaponId].upgradeCost,
                           !.inventory.weaponObjs[weaponId] = upgradedItem(@),
                           !.statistics.itemsUpgraded = @ + 1]
       IN IF currentWeaponId(s1) = weaponId
          THEN [s1 EXCEPT !.playerStats.atk =
                  atkWithDurability(s1, s1.inventory.weaponObjs[weaponId])]
          ELSE s1

upgradeWeapon(s, weaponId) ==
  IF weaponId \notin s.inventory.weapons
     \/ s.gems < s.inventory.weaponObjs[weaponId].upgradeCost
  THEN s
  ELSE LET s1 == [s EXCEPT !.gems = @ - s.inventory.weaponObjs[weaponId].upgradeCost,
                           !.inventory.weaponObjs[weaponId] = upgradedItem(@),
                           !.statistics.itemsUpgraded = @ + 1]
       IN IF currentWeaponId(s1) = weaponId
          THEN [s1 EXCEPT !.playerStats.atk =
                  atkWithDurability(s1, s1.inventory.weaponObjs[weaponId])]
          ELSE s1

upgradeArmor(s, armorId) ==
  IF armorId \notin s.inventory.armor
     \/ s.gems < s.inventory.armorObjs[armorId].upgradeCost
  THEN s
  ELSE LET s1 == [s EXCEPT !.gems = @ - s.inventory.armorObjs[armorId].upgradeCost,
                           !.inventory.armorObjs[armorId] = upgradedItem(@),
                           !.statistics.itemsUpgraded = @ + 1]
       IN IF currentArmorId(s1) = armorId
          THEN [s1 EXCEPT !.playerStats.def =
                  defWithDurability(s1, s1.inventory.armorObjs[armorId])]
          ELSE s1

sellWeapon(s, weaponId) ==
  IF weaponId \notin s.inventory.weapons THEN s
  ELSE IF currentWeaponId(s) = weaponId THEN s
  ELSE [s EXCEPT !.coins = @ + s.inventory.weaponObjs[weaponId].sellPrice,
                 !.statistics.itemsSold = @ + 1,
                 !.inventory.weapons = @ \ {weaponId}]

sellArmor(s, armorId) ==
  IF armorId \notin s.inventory.armor THEN s
  ELSE IF currentArmorId(s) = armorId THEN s
  ELSE [s EXCEPT !.coins = @ + s.inventory.armorObjs[armorId].sellPrice,
                 !.statistics.itemsSold = @ + 1,
                 !.inventory.armor = @ \ {armorId}]

discardItem(s, itemId, type) ==
  IF type = "weapon"
  THEN [s EXCEPT !.inventory.weapons = @ \ {itemId}]
  ELSE [s EXCEPT !.inventory.armor = @ \ {itemId}]

bulkSell(s, itemIds, type) ==
  IF type = "weapon"
  THEN LET weaponsToSell == {w \in s.inventory.weapons :
                               w \in itemIds /\ currentWeaponId(s) # w}
       IN [s EXCEPT !.coins = @ + SumOver(weaponsToSell,
                        [w \in 1..MaxWeapons |->
                           IF s.inventory.weaponObjs[w] = Null THEN 0
                           ELSE s.inventory.weaponObjs[w].sellPrice]),
                    !.statistics.itemsSold = @ + Cardinality(itemIds),
                    !.inventory.weapons = @ \ weaponsToSell]
  ELSE LET armorToSell == {a \in s.inventory.armor :
                             a \in itemIds /\ currentArmorId(s) # a}
       IN [s EXCEPT !.coins = @ + SumOver(armorToSell,
                        [a \in 1..MaxArmor |->
                           IF s.inventory.armorObjs[a] = Null THEN 0
                           ELSE s.inventory.armorObjs[a].sellPrice]),
                    !.statistics.itemsSold = @ + Cardinality(itemIds),
                    !.inventory.armor = @ \ armorToSell]

bulkUpgrade(s, itemIds, type) ==
  IF type = "weapon"
  THEN LET weaponsToUpgrade == s.inventory.weapons \cap itemIds
           totalCost == SumOver(weaponsToUpgrade,
                          [w \in 1..MaxWeapons |->
                             IF s.inventory.weaponObjs[w] = Null THEN 0
                             ELSE s.inventory.weaponObjs[w].upgradeCost])
       IN IF s.gems >= totalCost
          THEN [s EXCEPT !.gems = @ - totalCost,
                         !.statistics.itemsUpgraded = @ + Cardinality(weaponsToUpgrade),
                         !.inventory.weaponObjs =
                           [w \in DOMAIN @ |->
                              IF w \in weaponsToUpgrade THEN upgradedItem(@[w])
                              ELSE @[w]]]
          ELSE s
  ELSE LET armorToUpgrade == s.inventory.armor \cap itemIds
           totalCost == SumOver(armorToUpgrade,
                          [a \in 1..MaxArmor |->
                             IF s.inventory.armorObjs[a] = Null THEN 0
                             ELSE s.inventory.armorObjs[a].upgradeCost])
       IN IF s.gems >= totalCost
          THEN [s EXCEPT !.gems = @ - totalCost,
                         !.statistics.itemsUpgraded = @ + Cardinality(armorToUpgrade),
                         !.inventory.armorObjs =
                           [a \in DOMAIN @ |->
                              IF a \in armorToUpgrade THEN upgradedItem(@[a])
                              ELSE @[a]]]
          ELSE s

---------------------------------------------------------------------------
(* Combat *)

resetSkills(s) ==
  [s EXCEPT !.adventureSkills = [selectedSkill |-> "none",
                                 showSelectionModal |-> FALSE,
                                 skillEffects |-> NoSkillEffects]]

(* startCombat that raises the combat flag without storing the enemy *)
startCombatNoEnemy(s, enemy, offer) ==
  [s EXCEPT !.inCombat = TRUE, !.hasUsedRevival = FALSE]

(* startCombat; offer is the outcome of the 25% draw *)
startCombat(s, enemy, offer) ==
  LET s1 == [s EXCEPT !.currentEnemy = enemy,
                      !.inCombat = TRUE,
                      !.hasUsedRevival = FALSE]
  IN IF offer
     THEN [s1 EXCEPT !.adventureSkills.showSelectionModal = TRUE]
     ELSE resetSkills(s1)

(* floor(100 * 1.2^(level-1)) for level = 1, 2, ...: the values the       *)
(* source's double arithmetic gives, which are the exact floors           *)
ThresholdTable ==
  << 100, 120, 144, 172, 207, 248, 298, 358, 429, 515, 619, 743, 891, 1069,
     1283, 1540, 1848, 2218, 2662, 3194, 3833, 4600, 5520, 6624, 7949, 9539,
     11447, 13737, 16484, 19781, 23737, 28485, 34182, 41018, 49222, 59066,
     70880, 85056, 102067, 122480, 146977, 176372, 211647, 253976, 304771,
     365726, 438871, 526645, 631974, 758369, 910043, 1092052, 1310463,
     1572555, 1887066, 2264480, 2717376, 3260851, 3913021, 4695626 >>

experienceThreshold(level) == ThresholdTable[level]

(* the level-up written as an if: at most one level per award *)
levelUpOnce(p) ==
  IF p.experience >= p.experienceToNext
  THEN [p EXCEPT !.experience = @ - p.experienceToNext,
                 !.level = @ + 1,
                 !.skillPoints = @ + 1,
                 !.experienceToNext = experienceThreshold(p.level + 1)]
  ELSE p

(* the level-up loop of attack and setExperience *)
RECURSIVE levelUp(_)
levelUp(p) ==
  IF p.experience >= p.experienceToNext
  THEN levelUp([p EXCEPT !.experience = @ - p.experienceToNext,
                         !.level = @ + 1,
                         !.skillPoints = @ + 1,
                         !.experienceToNext = experienceThreshold(p.level + 1)])
  ELSE p

hasEffect(s, flag) == flag \in s.adventureSkills.skillEffects

activeMenuType(s) ==
  IF s.skills.activeMenuSkill = Null THEN "none"
  ELSE s.skills.activeMenuSkill.type

(* damage of a correct answer: skill switch first, then menu-skill switch *)
skillDamage(s, damage, crit) ==
  LET sel == s.adventureSkills.selectedSkill IN
  IF sel = "lightning_chain" /\ hasEffect(s, "lightningChainActive") THEN damage * 2
  ELSE IF sel = "berserker" /\ hasEffect(s, "berserkerActive") THEN damage * 3
  ELSE IF sel = "critical_strike" /\ hasEffect(s, "criticalStrikeActive") /\ crit
       THEN damage * 4
  ELSE IF sel = "double_strike" /\ hasEffect(s, "doubleStrikeActive") THEN damage * 2
  ELSE IF sel = "ramp" /\ hasEffect(s, "rampActive")
       THEN (damage * (4 + s.knowledgeStreak.current)) \div 4
  ELSE damage

menuDamage(s, damage) ==
  IF activeMenuType(s) = "damage_boost" THEN damage * 2 ELSE damage

(* the two switches applied in the opposite order *)
playerDamageBuffFirst(s, crit) ==
  skillDamage(s, menuDamage(s, s.playerStats.atk), crit)

playerDamage(s, crit) == menuDamage(s, skillDamage(s, s.playerStats.atk, crit))

(* the coin reward computed without the streak multiplier *)
victoryCoinsFlat(s) ==
  LET base == 10 + s.zone * 2
      mode == IF s.gameMode.current = "blitz" THEN (base * 5) \div 4
              ELSE IF s.gameMode.current = "survival" THEN base * 2
              ELSE base
      menu == IF activeMenuType(s) \in {"coin_multiplier", "golden_touch"}
              THEN mode * 3 ELSE mode
  IN IF s.cheats.infiniteCoins THEN menu + 1000 ELSE menu

victoryCoins(s) ==
  LET base == ((10 + s.zone * 2) * s.knowledgeStreak.multiplier) \div 10
      mode == IF s.gameMode.current = "blitz" THEN (base * 5) \div 4
              ELSE IF s.gameMode.current = "survival" THEN base * 2
              ELSE base
      menu == IF activeMenuType(s) \in {"coin_multiplier", "golden_touch"}
              THEN mode * 3 ELSE mode
  IN IF s.cheats.infiniteCoins THEN menu + 1000 ELSE menu

victoryGems(s) ==
  LET base == (((s.zone \div 5) + 1) * s.knowledgeStreak.multiplier) \div 10
      mode == IF s.gameMode.current = "blitz" THEN (base * 11) \div 10
              ELSE IF s.gameMode.current = "survival" THEN base * 2
              ELSE base
  IN IF activeMenuType(s) \in {"gem_multiplier", "gem_magnet"}
     THEN mode * 3 ELSE mode

victoryXp(s) ==
  LET base == ((20 + s.zone * 3) * s.knowledgeStreak.multiplier) \div 10
      mode == IF s.gameMode.current = "survival" THEN base * 2 ELSE base
  IN IF activeMenuType(s) \in {"xp_multiplier", "xp_surge"}
     THEN mode * 4 ELSE mode

freeWeaponSlot(s) ==
  CHOOSE a \in 1..MaxWeapons : s.inventory.weaponObjs[a] = Null

freeArmorSlot(s) ==
  CHOOSE a \in 1..MaxArmor : s.inventory.armorObjs[a] = Null

hasFreeWeaponSlot(s) == \E a \in 1..MaxWeapons : s.inventory.weaponObjs[a] = Null
hasFreeArmorSlot(s) == \E a \in 1..MaxArmor : s.inventory.armorObjs[a] = Null

addWeapon(s, w) ==
  LET a == freeWeaponSlot(s)
  IN [s EXCEPT !.inventory.weaponObjs[a] = [w EXCEPT !.id = a],
               !.inventory.weapons = @ \cup {a}]

addArmor(s, w) ==
  LET a == freeArmorSlot(s)
  IN [s EXCEPT !.inventory.armorObjs[a] = [w EXCEPT !.id = a],
               !.inventory.armor = @ \cup {a}]

(* drop is "none", or the generated item: [kind, item] *)
addItem(s, drop) ==
  IF drop.kind = "weapon" THEN addWeapon(s, drop.item)
  ELSE IF drop.kind = "armor" THEN addArmor(s, drop.item)
  ELSE s

NoDrop == [kind |-> "none"]

victory(s, drop) ==
  LET s1 == [s EXCEPT !.coins = @ + victoryCoins(s),
                      !.gems = @ + victoryGems(s),
                      !.statistics.totalVictories = @ + 1,
                      !.progression =
                         levelUp([@ EXCEPT !.experience = @ + victoryXp(s)])]
      s2 == IF s1.zone >= 10 THEN addItem(s1, drop) ELSE s1
      s3 == [s2 EXCEPT !.zone = @ + 1,
                       !.inCombat = FALSE,
                       !.currentEnemy = Null]
      s4 == IF s3.gameMode.current # "survival"
            THEN [s3 EXCEPT !.playerStats.hp =
                    Min(s3.playerStats.maxHp, @ + (s3.playerStats.maxHp \div 5))]
            ELSE s3
      s5 == IF s4.adventureSkills.selectedSkill = "healing_aura"
               /\ hasEffect(s4, "healingAuraActive")
            THEN [s4 EXCEPT !.playerStats.hp =
                    Min(s4.playerStats.maxHp, @ + (s4.playerStats.maxHp \div 10))]
            ELSE s4
  IN resetSkills(s5)

attackHit(s, crit, drop) ==
  LET s1 == [s EXCEPT !.knowledgeStreak.current = @ + 1,
                      !.knowledgeStreak.multiplier = 10 + s.knowledgeStreak.current + 1]
      damage == playerDamage(s1, crit)
      s2 == [s1 EXCEPT !.currentEnemy.hp = @ - damage]
      s3 == IF s2.adventureSkills.selectedSkill = "vampiric"
               /\ hasEffect(s2, "vampiricActive")
            THEN [s2 EXCEPT !.playerStats.hp =
                    Min(s2.playerStats.maxHp, @ + (damage \div 4))]
            ELSE s2
  IN IF s3.currentEnemy.hp <= 0 THEN victory(s3, drop) ELSE s3

(* damage of a wrong answer before the consumable effects are marked used *)
skillEnemyDamage(s, d) ==
  LET sel == s.adventureSkills.selectedSkill IN
  IF sel = "berserker" /\ hasEffect(s, "berserkerActive") THEN d * 2
  ELSE IF sel = "shield_wall" /\ hasEffect(s, "shieldWallActive") THEN d \div 4
  ELSE IF sel = "metal_shield" /\ ~hasEffect(s, "metalShieldUsed") THEN 0
  ELSE IF sel = "dodge" /\ ~hasEffect(s, "dodgeUsed") THEN 0
  ELSE d

menuEnemyDamage(s, d) ==
  IF activeMenuType(s) = "defense_boost" THEN d \div 4
  ELSE IF activeMenuType(s) = "magic_shield" THEN 0
  ELSE d

enemyDamage(s) ==
  menuEnemyDamage(s, skillEnemyDamage(s,
     Max(1, s.currentEnemy.atk - s.playerStats.def)))

markConsumables(s) ==
  LET sel == s.adventureSkills.selectedSkill IN
  IF sel = "metal_shield" /\ ~hasEffect(s, "metalShieldUsed")
  THEN [s EXCEPT !.adventureSkills.skillEffects = @ \cup {"metalShieldUsed"}]
  ELSE IF sel = "dodge" /\ ~hasEffect(s, "dodgeUsed")
  THEN [s EXCEPT !.adventureSkills.skillEffects = @ \cup {"dodgeUsed"}]
  ELSE s

(* defeat that forgets the life counter of the limited-lives mode *)
defeatKeepsLives(s) ==
  resetSkills([s EXCEPT !.statistics.totalDeaths = @ + 1,
                        !.inCombat = FALSE,
                        !.currentEnemy = Null,
                        !.playerStats.hp = s.playerStats.maxHp])

defeat(s) ==
  LET s1 == [s EXCEPT !.statistics.totalDeaths = @ + 1]
      s2 == IF s1.gameMode.current = "survival"
            THEN [s1 EXCEPT !.gameMode.survivalLives = @ - 1]
            ELSE s1
      s3 == [s2 EXCEPT !.inCombat = FALSE,
                       !.currentEnemy = Null,
                       !.playerStats.hp = s2.playerStats.maxHp]
  IN resetSkills(s3)

(* the chain with the phoenix branch also spending the free revival *)
revivalChainGreedy(s) ==
  IF s.adventureSkills.selectedSkill = "phoenix" /\ ~hasEffect(s, "phoenixUsed")
  THEN [s EXCEPT !.playerStats.hp = s.playerStats.maxHp \div 2,
                 !.adventureSkills.skillEffects = @ \cup {"phoenixUsed"},
                 !.hasUsedRevival = TRUE]
  ELSE IF s.adventureSkills.selectedSkill = "divine_protection"
          /\ ~hasEffect(s, "divineProtectionUsed")
  THEN [s EXCEPT !.playerStats.hp = 1,
                 !.adventureSkills.skillEffects = @ \cup {"divineProtectionUsed"}]
  ELSE IF ~s.hasUsedRevival
  THEN [s EXCEPT !.playerStats.hp = s.playerStats.maxHp \div 2,
                 !.hasUsedRevival = TRUE,
                 !.statistics.revivals = @ + 1]
  ELSE defeat(s)

(* the chain with the free revival tried before the skill fallbacks *)
revivalChainFreeFirst(s) ==
  IF ~s.hasUsedRevival
  THEN [s EXCEPT !.playerStats.hp = s.playerStats.maxHp \div 2,
                 !.hasUsedRevival = TRUE,
                 !.statistics.revivals = @ + 1]
  ELSE IF s.adventureSkills.selectedSkill = "phoenix" /\ ~hasEffect(s, "phoenixUsed")
  THEN [s EXCEPT !.playerStats.hp = s.playerStats.maxHp \div 2,
                 !.adventureSkills.skillEffects = @ \cup {"phoenixUsed"}]
  ELSE IF s.adventureSkills.selectedSkill = "divine_protection"
          /\ ~hasEffect(s, "divineProtectionUsed")
  THEN [s EXCEPT !.playerStats.hp = 1,
                 !.adventureSkills.skillEffects = @ \cup {"divineProtectionUsed"}]
  ELSE defeat(s)

(* the chain with a free revival that is never marked used *)
revivalChainUnmarked(s) ==
  IF s.adventureSkills.selectedSkill = "phoenix" /\ ~hasEffect(s, "phoenixUsed")
  THEN [s EXCEPT !.playerStats.hp = s.playerStats.maxHp \div 2,
                 !.adventureSkills.skillEffects = @ \cup {"phoenixUsed"}]
  ELSE IF s.adventureSkills.selectedSkill = "divine_protection"
          /\ ~hasEffect(s, "divineProtectionUsed")
  THEN [s EXCEPT !.playerStats.hp = 1,
                 !.adventureSkills.skillEffects = @ \cup {"divineProtectionUsed"}]
  ELSE [s EXCEPT !.playerStats.hp = s.playerStats.maxHp \div 2,
                 !.statistics.revivals = @ + 1]

(* the revival fallback chain, entered with hp <= 0 *)
revivalChain(s) ==
  IF s.adventureSkills.selectedSkill = "phoenix" /\ ~hasEffect(s, "phoenixUsed")
  THEN [s EXCEPT !.playerStats.hp = s.playerStats.maxHp \div 2,
                 !.adventureSkills.skillEffects = @ \cup {"phoenixUsed"}]
  ELSE IF s.adventureSkills.selectedSkill = "divine_protection"
          /\ ~hasEffect(s, "divineProtectionUsed")
  THEN [s EXCEPT !.playerStats.hp = 1,
                 !.adventureSkills.skillEffects = @ \cup {"divineProtectionUsed"}]
  ELSE IF ~s.hasUsedRevival
  THEN [s EXCEPT !.playerStats.hp = s.playerStats.maxHp \div 2,
                 !.hasUsedRevival = TRUE,
                 !.statistics.revivals = @ + 1]
  ELSE defeat(s)

attackMiss(s) ==
  LET s1 == [s EXCEPT !.knowledgeStreak.current = 0,
                      !.knowledgeStreak.multiplier = 10]
      d == enemyDamage(s1)
      s2 == markConsumables(s1)
  IN IF d > 0
     THEN LET s3 == [s2 EXCEPT !.playerStats.hp = @ - d]
          IN IF s3.playerStats.hp <= 0 THEN revivalChain(s3) ELSE s3
     ELSE s2

(* the durability step skipped by an attack that ended the encounter *)
attackDurabilityWhileFighting(s) ==
  IF ~s.inCombat THEN s
  ELSE LET s1 == IF s.inventory.currentWeapon # NoItem
                    /\ currentWeaponObj(s).durability > 0
                 THEN wearWeapon(s) ELSE s
       IN IF s1.inventory.currentArmor # NoItem /\ currentArmorObj(s1).durability > 0
          THEN wearArmor(s1) ELSE s1

(* durability loss and stat refresh that end every processed attack *)
attackDurability(s) ==
  LET s1 == IF s.inventory.currentWeapon # NoItem /\ currentWeaponObj(s).durability > 0
            THEN LET t == wearWeapon(s)
                 IN [t EXCEPT !.playerStats.atk = atkWithDurability(t, currentWeaponObj(t))]
            ELSE s
  IN IF s1.inventory.currentArmor # NoItem /\ currentArmorObj(s1).durability > 0
     THEN LET t == wearArmor(s1)
          IN [t EXCEPT !.playerStats.def = defWithDurability(t, currentArmorObj(t))]
     ELSE s1

(* attack that scores the answer and wears the equipment before it looks *)
(* for an encounter                                                       *)
attackUnguarded(s, hit, crit, drop) ==
  IF s.currentEnemy = Null \/ ~s.inCombat
  THEN attackDurability(
         [s EXCEPT !.knowledgeStreak.current = IF hit THEN @ + 1 ELSE 0,
                   !.knowledgeStreak.multiplier =
                      IF hit THEN 10 + s.knowledgeStreak.current + 1 ELSE 10])
  ELSE attackDurability(IF hit THEN attackHit(s, crit, drop) ELSE attackMiss(s))

attack(s, hit, crit, drop) ==
  IF s.currentEnemy = Null \/ ~s.inCombat THEN s
  ELSE attackDurability(IF hit THEN attackHit(s, crit, drop) ELSE attackMiss(s))

setGameMode(s, mode) ==
  LET s1 == [s EXCEPT !.gameMode.current = mode]
      s2 == IF mode = "survival"
            THEN [s1 EXCEPT !.gameMode.survivalLives = MaxSurvivalLives]
            ELSE s1
  IN IF mode = "bloodlust"
     THEN LET mh == (BaseHp * (12000 + s2.gardenOfGrowth.totalGrowthBonus)) \div 24000
          IN [s2 EXCEPT
                !.playerStats.atk =
                   gardenBonus((BaseAtk + fullWeaponAtk(s2) + relicAtkBonus(s2)) * 2, s2),
                !.playerStats.def =
                   ((BaseDef + fullArmorDef(s2) + relicDefBonus(s2))
                      * (12000 + s2.gardenOfGrowth.totalGrowthBonus)) \div 24000,
                !.playerStats.maxHp = mh,
                !.playerStats.hp = Min(@, mh)]
     ELSE LET t == recalcNormalStats(s2)
              mh == gardenBonus(BaseHp, t)
          IN [t EXCEPT !.playerStats.maxHp = mh,
                       !.playerStats.hp = Min(@, mh)]

(* the flag that selectAdventureSkill switches on, if any *)
activatedFlag(skill) ==
  CASE skill = "truth_lies" -> {"truthLiesActive"}
    [] skill = "lightning_chain" -> {"lightningChainActive"}
    [] skill = "ramp" -> {"rampActive"}
    [] skill = "berserker" -> {"berserkerActive"}
    [] skill = "vampiric" -> {"vampiricActive"}
    [] skill = "time_slow" -> {"timeSlowActive"}
    [] skill = "critical_strike" -> {"criticalStrikeActive"}
    [] skill = "shield_wall" -> {"shieldWallActive"}
    [] skill = "poison_blade" -> {"poisonBladeActive"}
    [] skill = "arcane_shield" -> {"arcaneShieldActive"}
    [] skill = "battle_frenzy" -> {"battleFrenzyActive"}
    [] skill = "elemental_mastery" -> {"elementalMasteryActive"}
    [] skill = "healing_aura" -> {"healingAuraActive"}
    [] skill = "double_strike" -> {"doubleStrikeActive"}
    [] skill = "mana_shield" -> {"manaShieldActive"}
    [] skill = "berserk_rage" -> {"berserkRageActive"}
    [] skill = "storm_call" -> {"stormCallActive"}
    [] skill = "blood_pact" -> {"bloodPactActive"}
    [] skill = "frost_armor" -> {"frostArmorActive"}
    [] skill = "fireball" -> {"fireballActive"}
    [] OTHER -> {}

selectAdventureSkill(s, skill) ==
  [s EXCEPT !.adventureSkills.selectedSkill = skill,
            !.adventureSkills.showSelectionModal = FALSE,
            !.adventureSkills.skillEffects = @ \cup activatedFlag(skill)]

skipAdventureSkills(s) == resetSkills(s)

useSkipCard(s) ==
  IF s.adventureSkills.selectedSkill = "skip_card" /\ ~hasEffect(s, "skipCardUsed")
  THEN [s EXCEPT !.adventureSkills.skillEffects = @ \cup {"skipCardUsed"}]
  ELSE s

---------------------------------------------------------------------------
(* Chests, purchases, mining *)

gemMultiplier(rarity) ==
  CASE rarity = "common" -> 1
    [] rarity = "rare" -> 2
    [] rarity = "epic" -> 3
    [] rarity = "legendary" -> 5
    [] rarity = "mythical" -> 8

chestGems(cost, rarity) == (cost \div 20) * gemMultiplier(rarity)

RarityTiers == <<"common", "rare", "epic", "legendary", "mythical">>

(* the draw Math.random() * 100 is kept in thousandths, weights in units *)
DrawScale == 1000

(* the selection loop with a strict comparison *)
RECURSIVE selectRarityStrictFrom(_, _, _, _)
selectRarityStrictFrom(weights, random, i, cumulative) ==
  IF i > Len(weights) THEN "common"
  ELSE IF random < (cumulative + weights[i]) * DrawScale THEN RarityTiers[i]
  ELSE selectRarityStrictFrom(weights, random, i + 1, cumulative + weights[i])

selectRarityStrict(weights, random) == selectRarityStrictFrom(weights, random, 1, 0)

(* the selection loop of openChest: rarity starts as 'common' and takes   *)
(* the tier of the first i with random <= cumulative                      *)
RECURSIVE selectRarityFrom(_, _, _, _)
selectRarityFrom(weights, random, i, cumulative) ==
  IF i > Len(weights) THEN "common"
  ELSE IF random <= (cumulative + weights[i]) * DrawScale THEN RarityTiers[i]
  ELSE selectRarityFrom(weights, random, i + 1, cumulative + weights[i])

selectRarity(weights, random) == selectRarityFrom(weights, random, 1, 0)

(* the gem reward openChest builds for the drawn rarity *)
gemReward(cost, weights, random) ==
  [type |-> "gems", gems |-> chestGems(cost, selectRarity(weights, random))]

RECURSIVE addItems(_, _)
addItems(s, items) ==
  IF items = <<>> THEN s
  ELSE addItems(addItem(s, Head(items)), Tail(items))

(* call-site check of openChest against the observed snapshot g *)
canOpenChest(g, cost) == g.coins >= cost

(* reward is [type |-> "gems", gems |-> n] or [type |-> "items", items |-> seq] *)
openChestUpdater(s, cost, reward, bonusGems) ==
  LET s1 == IF s.cheats.infiniteCoins THEN s ELSE [s EXCEPT !.coins = @ - cost]
      s2 == IF reward.type = "gems"
            THEN [s1 EXCEPT !.gems = @ + reward.gems]
            ELSE addItems(s1, reward.items)
  IN [s2 EXCEPT !.gems = @ + bonusGems]

canPurchaseMythical(g, cost) == g.coins >= cost

purchaseMythicalUpdater(s, cost, drop) ==
  addItem([s EXCEPT !.coins = @ - cost], drop)

generateCheatItem(s, drop) == addItem(s, drop)

toggleCheat(s) == [s EXCEPT !.cheats.infiniteCoins = ~@]

mineGem(s, isShiny) ==
  [s EXCEPT !.gems = @ + (IF isShiny THEN 0 ELSE 1),
            !.shinyGems = @ + (IF isShiny THEN 1 ELSE 0)]

canExchangeShinyGems(g, amount) == g.shinyGems >= amount

exchangeShinyGemsUpdater(s, amount) ==
  [s EXCEPT !.shinyGems = @ - amount,
            !.gems = @ + amount * 10]

---------------------------------------------------------------------------
(* Relics and the Yojef market *)

freeRelicAddrs(objs) == {a \in RelicAddrs : objs[a] = Null}

RECURSIVE placeRelics(_, _)
(* store the generated relics at the lowest free addresses *)
placeRelics(objs, batch) ==
  IF batch = <<>> THEN objs
  ELSE LET a == CHOOSE x \in freeRelicAddrs(objs) :
                   \A y \in freeRelicAddrs(objs) : x <= y
       IN placeRelics([objs EXCEPT ![a] = [Head(batch) EXCEPT !.id = a]],
                      Tail(batch))

(* replace the offer list by the freshly generated batch *)
refreshMarket(s, batch, t) ==
  LET cleared == [a \in RelicAddrs |->
                    IF a \in s.yojefMarket.items THEN Null
                    ELSE s.inventory.relicObjs[a]]
      placed == placeRelics(cleared, batch)
  IN [s EXCEPT !.inventory.relicObjs = placed,
               !.yojefMarket.items = {a \in RelicAddrs :
                                        cleared[a] = Null /\ placed[a] # Null},
               !.yojefMarket.lastRefresh = t,
               !.yojefMarket.nextRefresh = t + MarketCycle]

canPurchaseRelic(g, relicId) ==
  /\ relicId \in g.yojefMarket.items
  /\ g.gems >= g.inventory.relicObjs[relicId].cost

purchaseRelicUpdater(s, g, relicId) ==
  [s EXCEPT !.gems = @ - g.inventory.relicObjs[relicId].cost,
            !.inventory.relics = @ \cup {relicId},
            !.yojefMarket.items = @ \ {relicId}]

upgradeRelic(s, relicId) ==
  IF relicId \notin (s.inventory.relics \cup s.inventory.equippedRelics)
     \/ s.gems < s.inventory.relicObjs[relicId].upgradeCost
  THEN s
  ELSE LET s1 == [s EXCEPT !.gems = @ - s.inventory.relicObjs[relicId].upgradeCost,
                           !.inventory.relicObjs[relicId].level = @ + 1,
                           !.inventory.relicObjs[relicId].upgradeCost = (@ * 3) \div 2]
       IN IF relicId \in s1.inventory.equippedRelics
          THEN recalcNormalStats(s1)
          ELSE s1

equipRelic(s, relicId) ==
  IF relicId \notin s.inventory.relics THEN s
  ELSE recalcNormalStats(
         [s EXCEPT !.inventory.equippedRelics = @ \cup {relicId},
                   !.inventory.relics = @ \ {relicId}])

unequipRelic(s, relicId) ==
  IF relicId \notin s.inventory.equippedRelics THEN s
  ELSE recalcNormalStats(
         [s EXCEPT !.inventory.relics = @ \cup {relicId},
                   !.inventory.equippedRelics = @ \ {relicId}])

sellRelic(s, relicId) ==
  IF relicId \notin s.inventory.relics THEN s
  ELSE [s EXCEPT !.gems = @ + (s.inventory.relicObjs[relicId].cost \div 2),
                 !.inventory.relics = @ \ {relicId},
                 !.inventory.relicObjs[relicId] = Null]

---------------------------------------------------------------------------
(* Daily reward, progression, offline rewards, garden, menu skills *)

canClaimDailyReward(g) == g.dailyRewards.availableReward # Null

(* claimDailyReward that credits the reward and leaves it pending *)
claimDailyRewardKeepsReward(s, special, t) ==
  LET reward == s.dailyRewards.availableReward
  IN [s EXCEPT !.coins = @ + reward.coins,
               !.gems = @ + reward.gems,
               !.dailyRewards.rewardHistory = Append(@, reward),
               !.dailyRewards.lastClaimDate = t]

(* special is the item generated for a day-7 or day-14 reward *)
claimDailyRewardUpdater(s, special, t) ==
  LET reward == s.dailyRewards.availableReward
      s1 == [s EXCEPT !.coins = @ + reward.coins,
                      !.gems = @ + reward.gems]
      s2 == IF reward.special \in {"Legendary Chest", "Mythical Item"}
            THEN addItem(s1, special)
            ELSE s1
  IN [s2 EXCEPT !.dailyRewards.rewardHistory = Append(@, reward),
                !.dailyRewards.lastClaimDate = t,
                !.dailyRewards.availableReward = Null]

(* rewardHistory.push on a history the snapshot left out *)
claimDailyRewardRaises(s) == <<"dailyRewards", "rewardHistory">> \in s.absent

(* what the updater has written when the push throws *)
claimDailyRewardCredited(s) ==
  [s EXCEPT !.coins = @ + s.dailyRewards.availableReward.coins,
            !.gems = @ + s.dailyRewards.availableReward.gems]

canUpgradeSkill(g) == g.progression.skillPoints > 0

upgradeSkillUpdater(s) == [s EXCEPT !.progression.skillPoints = @ - 1]

canPrestige(g) == g.progression.level >= PrestigeLevel

prestigeUpdater(s) ==
  [s EXCEPT !.progression.prestigeLevel = @ + 1,
            !.progression.level = 1,
            !.progression.experience = 0,
            !.progression.experienceToNext = 100,
            !.progression.skillPoints = 0,
            !.zone = 1,
            !.coins = 500,
            !.gems = 50,
            !.playerStats.hp = s.playerStats.maxHp]

claimOfflineRewards(s) ==
  [s EXCEPT !.coins = @ + s.offlineProgress.offlineCoins,
            !.gems = @ + s.offlineProgress.offlineGems,
            !.offlineProgress.offlineCoins = 0,
            !.offlineProgress.offlineGems = 0]

(* plantSeed without its affordability check *)
canPlantSeedUnfunded(g) == ~g.gardenOfGrowth.isPlanted

canPlantSeed(g) == g.coins >= SeedCost /\ ~g.gardenOfGrowth.isPlanted

plantSeedUpdater(s, t) ==
  [s EXCEPT !.coins = @ - SeedCost,
            !.gardenOfGrowth.isPlanted = TRUE,
            !.gardenOfGrowth.lastWatered = t,
            !.gardenOfGrowth.waterHoursRemaining = 24 * MinutesPerHour]

waterPrice(hours) == (hours * WaterCost) \div 24

canBuyWater(g, hours) ==
  g.gardenOfGrowth.isPlanted /\ g.coins >= waterPrice(hours)

buyWaterUpdater(s, hours, t) ==
  [s EXCEPT !.coins = @ - waterPrice(hours),
            !.gardenOfGrowth.waterHoursRemaining = @ + hours * MinutesPerHour,
            !.gardenOfGrowth.lastWatered = t]

addCoins(s, amount) == [s EXCEPT !.coins = @ + amount]

addGems(s, amount) == [s EXCEPT !.gems = @ + amount]

teleportToZone(s, zone) == [s EXCEPT !.zone = Max(1, zone)]

setExperience(s, xp) ==
  [s EXCEPT !.progression = levelUp([@ EXCEPT !.experience = Max(0, xp)])]

(* duration of a menu skill in minutes (source: hours) *)
skillDuration(type) ==
  CASE type \in {"treasurer", "luck_gem", "streak_guardian", "auto_heal"} -> 60
    [] type \in {"coin_vacuum", "question_master", "item_duplicator",
                 "garden_booster", "xp_multiplier", "magic_shield"} -> 120
    [] type \in {"gem_magnet", "gem_multiplier", "speed_boost"} -> 180
    [] type \in {"enchanter", "stat_amplifier", "coin_multiplier",
                 "luck_boost"} -> 240
    [] type = "damage_boost" -> 300
    [] type \in {"durability_master", "research_accelerator",
                 "defense_boost"} -> 360
    [] type \in {"golden_touch", "health_boost"} -> 480
    [] type \in {"time_warp", "relic_finder"} -> 720
    [] type \in {"xp_surge", "knowledge_boost", "revival_blessing"} -> 1440
    [] type \in {"zone_skipper", "market_refresh"} -> 6

generateMenuSkill(type, t) == [type |-> type, expiresAt |-> t + skillDuration(type)]

canRollSkill(g) == g.coins >= RollCost

rollSkillUpdater(s, type, batch, t) ==
  LET s1 == [s EXCEPT !.coins = @ - RollCost,
                      !.skills.activeMenuSkill = generateMenuSkill(type, t)]
  IN IF type = "zone_skipper" THEN [s1 EXCEPT !.zone = @ + 5]
     ELSE IF type = "market_refresh" THEN refreshMarket(s1, batch, t)
     ELSE IF type = "health_boost"
          THEN [s1 EXCEPT !.playerStats.maxHp = BaseHp * 3,
                          !.playerStats.hp = BaseHp * 3]
     ELSE IF type = "stat_amplifier"
          THEN [s1 EXCEPT
                  !.playerStats.atk =
                     ((BaseAtk + fullWeaponAtk(s1) + relicAtkBonus(s1)) * 3
                        * (12000 + s1.gardenOfGrowth.totalGrowthBonus)) \div 24000,
                  !.playerStats.def =
                     ((BaseDef + fullArmorDef(s1) + relicDefBonus(s1)) * 3
                        * (12000 + s1.gardenOfGrowth.totalGrowthBonus)) \div 24000,
                  !.playerStats.maxHp =
                     (BaseHp * 3 * (12000 + s1.gardenOfGrowth.totalGrowthBonus))
                        \div 24000]
     ELSE s1

---------------------------------------------------------------------------
(* Persistence: load with idle reconciliation, save, reset *)

dailyReward(day) ==
  [day |-> day,
   coins |-> 50 + day * 25,
   gems |-> 5 + (day \div 2),
   special |-> IF day = 7 THEN "Legendary Chest"
               ELSE IF day = 14 THEN "Mythical Item" ELSE "none"]

FirstDailyReward == [day |-> 1, coins |-> 75, gems |-> 5, special |-> "none"]

(* offline accrual without the cap of maxOfflineHours *)
reconcileOfflineUncapped(s, t) ==
  LET offlineMinutes == t - s.offlineProgress.lastSaveTime
  IN IF offlineMinutes * 10 > MinutesPerHour
     THEN [s EXCEPT !.offlineProgress.offlineCoins =
                       (offlineMinutes * 10) \div MinutesPerHour,
                    !.offlineProgress.offlineGems = offlineMinutes \div MinutesPerHour]
     ELSE s

(* offline accrual: stages coins and gems for a manual claim *)
reconcileOffline(s, t) ==
  LET offlineMinutes == t - s.offlineProgress.lastSaveTime
      actual == Min(offlineMinutes, MaxOfflineHours * MinutesPerHour)
  IN IF offlineMinutes * 10 > MinutesPerHour
     THEN [s EXCEPT !.offlineProgress.offlineCoins = (actual * 10) \div MinutesPerHour,
                    !.offlineProgress.offlineGems = actual \div MinutesPerHour]
     ELSE s

(* garden step that lets the plant grow on its last water *)
reconcileGardenDry(s, t) ==
  IF s.gardenOfGrowth.isPlanted /\ s.gardenOfGrowth.waterHoursRemaining > 0
  THEN LET timeSinceWatered == t - s.gardenOfGrowth.lastWatered
           water == Max(0, s.gardenOfGrowth.waterHoursRemaining - timeSinceWatered)
           growth == Min(MaxGrowthCm * 120,
                         s.gardenOfGrowth.growthCm + timeSinceWatered)
       IN [s EXCEPT !.gardenOfGrowth.waterHoursRemaining = water,
                    !.gardenOfGrowth.growthCm = growth,
                    !.gardenOfGrowth.totalGrowthBonus = growth * 5]
  ELSE s

reconcileGarden(s, t) ==
  IF s.gardenOfGrowth.isPlanted /\ s.gardenOfGrowth.waterHoursRemaining > 0
  THEN LET timeSinceWatered == t - s.gardenOfGrowth.lastWatered
           water == Max(0, s.gardenOfGrowth.waterHoursRemaining - timeSinceWatered)
           growth == IF water > 0
                     THEN Min(MaxGrowthCm * 120,
                              s.gardenOfGrowth.growthCm + timeSinceWatered)
                     ELSE s.gardenOfGrowth.growthCm
       IN [s EXCEPT !.gardenOfGrowth.waterHoursRemaining = water,
                    !.gardenOfGrowth.growthCm = growth,
                    !.gardenOfGrowth.totalGrowthBonus = growth * 5]
  ELSE s

reconcileDaily(s, t) ==
  IF s.dailyRewards.lastClaimDate # NoDate
  THEN LET daysSinceLastClaim == (t - s.dailyRewards.lastClaimDate) \div MinutesPerDay
           streak == IF daysSinceLastClaim = 1
                     THEN s.dailyRewards.currentStreak + 1
                     ELSE 1
       IN IF daysSinceLastClaim >= 1
          THEN [s EXCEPT !.dailyRewards.currentStreak = streak,
                         !.dailyRewards.maxStreak = Max(@, streak),
                         !.dailyRewards.availableReward = dailyReward(streak)]
          ELSE s
  ELSE [s EXCEPT !.dailyRewards.currentStreak = 1,
                 !.dailyRewards.availableReward = FirstDailyReward,
                 !.absent = @ \ {<<"dailyRewards", "currentStreak">>,
                                 <<"dailyRewards", "availableReward">>}]

(* market refresh that also fires when now has just reached nextRefresh *)
reconcileMarketEager(s, t, batch) ==
  IF t >= s.yojefMarket.nextRefresh THEN refreshMarket(s, batch, t) ELSE s

reconcileMarket(s, t, batch) ==
  IF t > s.yojefMarket.nextRefresh THEN refreshMarket(s, batch, t) ELSE s

reconcileBuff(s, t) ==
  IF s.skills.activeMenuSkill # Null /\ t > s.skills.activeMenuSkill.expiresAt
  THEN [s EXCEPT !.skills.activeMenuSkill = Null]
  ELSE s

(* the reconciliation steps of loadGameState, in source order *)
reconcile(s, t, batch) ==
  reconcileBuff(
    reconcileMarket(
      reconcileDaily(
        reconcileGarden(
          reconcileOffline(s, t), t), t), t, batch), t)

(* JSON round trip: the equipped item comes back as an object of its own, *)
(* no longer shared with the inventory entry of the same id               *)
parseSnapshot(snap) ==
  LET s1 == IF snap.inventory.currentWeapon # NoItem
            THEN [snap EXCEPT !.inventory.weaponObjs[CloneSlot] =
                                 snap.inventory.weaponObjs[snap.inventory.currentWeapon],
                              !.inventory.currentWeapon = CloneSlot]
            ELSE snap
  IN IF s1.inventory.currentArmor # NoItem
     THEN [s1 EXCEPT !.inventory.armorObjs[CloneSlot] =
                        s1.inventory.armorObjs[s1.inventory.currentArmor],
                     !.inventory.currentArmor = CloneSlot]
     ELSE s1

(* fresh state of a new player or of resetGame: initial state plus offers *)
freshGameState(t, batch) ==
  LET s == createInitialGameState(t)
  IN [s EXCEPT !.inventory.relicObjs = placeRelics(@, batch),
               !.yojefMarket.items = 1..Len(batch)]

(* stored text that JSON.parse rejects *)
Garbled == [isGarbled |-> TRUE]

(* the shallow merge { ...createInitialGameState(), ...parsedState }: a   *)
(* top-level property the snapshot lacks takes its default, a present one *)
(* replaces the default whole, nested omissions included                  *)
mergedState(snap, t) ==
  [f \in DOMAIN createInitialGameState(t) |->
     IF f \in DOMAIN snap THEN snap[f] ELSE createInitialGameState(t)[f]]

(* reconciliation dereferences lastSaveTime (lastSave.getTime()) *)
reconcileRaises(s) == <<"offlineProgress", "lastSaveTime">> \in s.absent

(* an exception anywhere in the try block lands in the catch, which       *)
(* installs a fresh state                                                 *)
loadGameState(snap, t, batch) ==
  IF snap = Null \/ snap = Garbled THEN freshGameState(t, batch)
  ELSE LET m == parseSnapshot(mergedState(snap, t))
       IN IF reconcileRaises(m) THEN freshGameState(t, batch)
          ELSE reconcile(m, t, batch)

(* saveGameState stamps the live state and writes it *)
saveGameState(s, t) == [s EXCEPT !.offlineProgress.lastSaveTime = t]

(* objects no collection or slot refers to any more are dropped *)
collect(s) ==
  [s EXCEPT
     !.inventory.weaponObjs =
        [a \in DOMAIN @ |->
           IF a \in s.inventory.weapons \/ a = s.inventory.currentWeapon
              \/ (a # CloneSlot /\ currentWeaponId(s) = a)
           THEN @[a] ELSE Null],
     !.inventory.armorObjs =
        [a \in DOMAIN @ |->
           IF a \in s.inventory.armor \/ a = s.inventory.currentArmor
              \/ (a # CloneSlot /\ currentArmorId(s) = a)
           THEN @[a] ELSE Null]]

---------------------------------------------------------------------------
(* Inputs of the operations *)

WeaponDrops == {[kind |-> "weapon", item |-> w] : w \in WeaponTemplates}
ArmorDrops == {[kind |-> "armor", item |-> a] : a \in ArmorTemplates}
ItemDrops == WeaponDrops \cup ArmorDrops

RelicBatches ==
  { <<r1, r2, r1, r2>> : r1 \in {r \in RelicTemplates : r.type = "weapon"},
                         r2 \in {r \in RelicTemplates : r.type = "armor"} }

ChestRewards(cost) ==
  {[type |-> "gems", gems |-> chestGems(cost, r)] : r \in {"common", "mythical"}}
  \cup {[type |-> "items", items |-> <<d>>] : d \in ItemDrops}
  \cup {[type |-> "items", items |-> <<d1, d2>>] : d1 \in WeaponDrops, d2 \in ArmorDrops}

dropFits(s, drop) ==
  /\ drop.kind = "weapon" => hasFreeWeaponSlot(s)
  /\ drop.kind = "armor" => hasFreeArmorSlot(s)

rewardFits(s, reward) ==
  reward.type = "items" => \A i \in 1..Len(reward.items) : dropFits(s, reward.items[i])

(* the bounds of the model, imposed on every successor state *)
Bounded(s) ==
  /\ s.zone <= MaxZone
  /\ s.coins <= MaxCoins
  /\ s.gems <= MaxGems
  /\ s.shinyGems <= MaxShinyGems
  /\ s.statistics.totalDeaths <= MaxDeaths
  /\ s.statistics.revivals <= MaxRevivals
  /\ s.statistics.itemsSold <= MaxItemsSold
  /\ s.statistics.itemsUpgraded <= MaxItemsUpgraded
  /\ s.knowledgeStreak.current <= MaxStreak
  /\ s.progression.level <= MaxLevel
  /\ s.progression.prestigeLevel <= MaxPrestige
  /\ \A a \in 1..MaxWeapons :
        s.inventory.weaponObjs[a] # Null => s.inventory.weaponObjs[a].level <= MaxItemLevel
  /\ \A a \in 1..MaxArmor :
        s.inventory.armorObjs[a] # Null => s.inventory.armorObjs[a].level <= MaxItemLevel
  /\ \A a \in RelicAddrs :
        s.inventory.relicObjs[a] # Null => s.inventory.relicObjs[a].level <= MaxItemLevel
  /\ Cardinality(s.inventory.relics \cup s.inventory.equippedRelics) <= MaxRelics

---------------------------------------------------------------------------
(* History: enc counts what the current encounter (since the last        *)
(* startCombat) has consumed                                              *)

(* the flags of the one-shot effects: each is set when its effect fires *)
ConsumableFlags ==
  {"metalShieldUsed", "dodgeUsed", "phoenixUsed", "divineProtectionUsed"}

(* fired and refired are recorded only while watch is on *)
NoEncounter ==
  [fallbacks |-> 0, free |-> 0, watch |-> FALSE, fired |-> {}, refired |-> {}]

newlySet(flag, s, s2) ==
  IF ~hasEffect(s, flag) /\ hasEffect(s2, flag) THEN 1 ELSE 0

freeRevivalsIn(s, s2) == s2.statistics.revivals - s.statistics.revivals

encAfter(name, s, s2) ==
  IF name = "startCombat" THEN [NoEncounter EXCEPT !.watch = enc.watch]
  ELSE [fallbacks |-> enc.fallbacks + newlySet("phoenixUsed", s, s2)
                        + newlySet("divineProtectionUsed", s, s2)
                        + freeRevivalsIn(s, s2),
        free |-> enc.free + freeRevivalsIn(s, s2),
        watch |-> enc.watch,
        fired |-> IF enc.watch
                  THEN enc.fired \cup {f \in ConsumableFlags : newlySet(f, s, s2) = 1}
                  ELSE enc.fired,
        refired |-> IF enc.watch
                    THEN enc.refired \cup {f \in enc.fired : newlySet(f, s, s2) = 1}
                    ELSE enc.refired]

(* an updater's result goes through updateGameState and becomes the state *)
Commit(name, s2) ==
  \E ach \in SUBSET gameState.achievements :
    /\ gameState' = collect(updateGameState(s2, ach))
    /\ Bounded(gameState')
    /\ enc' = encAfter(name, gameState, s2)
    /\ enc'.fallbacks <= MaxFallbacks
    /\ UNCHANGED <<storage, now, hook>>

(* the call-site check failed: the operation returns false or null *)
Reject(name) == UNCHANGED vars

---------------------------------------------------------------------------
(* Operations *)

EquipWeapon(a) ==
  /\ a \in gameState.inventory.weapons
  /\ Commit("equipWeapon", equipWeapon(gameState, a))

EquipArmor(a) ==
  /\ a \in gameState.inventory.armor
  /\ Commit("equipArmor", equipArmor(gameState, a))

UpgradeWeapon(id) == Commit("upgradeWeapon", upgradeWeapon(gameState, id))

UpgradeArmor(id) == Commit("upgradeArmor", upgradeArmor(gameState, id))

SellWeapon(id) == Commit("sellWeapon", sellWeapon(gameState, id))

SellArmor(id) == Commit("sellArmor", sellArmor(gameState, id))

DiscardItem(id, type) == Commit("discardItem", discardItem(gameState, id, type))

BulkSell(ids, type) == Commit("bulkSell", bulkSell(gameState, ids, type))

BulkUpgrade(ids, type) == Commit("bulkUpgrade", bulkUpgrade(gameState, ids, type))

OpenChest(cost, reward, bonusGems) ==
  IF canOpenChest(gameState, cost)
  THEN /\ rewardFits(gameState, reward)
       /\ Commit("openChest", openChestUpdater(gameState, cost, reward, bonusGems))
  ELSE Reject("openChest")

PurchaseMythical(cost, drop) ==
  IF canPurchaseMythical(gameState, cost)
  THEN /\ dropFits(gameState, drop)
       /\ Commit("purchaseMythical", purchaseMythicalUpdater(gameState, cost, drop))
  ELSE Reject("purchaseMythical")

GenerateCheatItem(drop) ==
  /\ dropFits(gameState, drop)
  /\ Commit("generateCheatItem", generateCheatItem(gameState, drop))

ToggleCheat == Commit("toggleCheat", toggleCheat(gameState))

MineGem(isShiny) == Commit("mineGem", mineGem(gameState, isShiny))

ExchangeShinyGems(amount) ==
  IF canExchangeShinyGems(gameState, amount)
  THEN Commit("exchangeShinyGems", exchangeShinyGemsUpdater(gameState, amount))
  ELSE Reject("exchangeShinyGems")

PurchaseRelic(id) ==
  IF canPurchaseRelic(gameState, id)
  THEN Commit("purchaseRelic", purchaseRelicUpdater(gameState, gameState, id))
  ELSE Reject("purchaseRelic")

UpgradeRelic(id) == Commit("upgradeRelic", upgradeRelic(gameState, id))

EquipRelic(id) == Commit("equipRelic", equipRelic(gameState, id))

UnequipRelic(id) == Commit("unequipRelic", unequipRelic(gameState, id))

SellRelic(id) == Commit("sellRelic", sellRelic(gameState, id))

StartCombat(enemy, offer) ==
  Commit("startCombat", startCombat(gameState, enemy, offer))

Attack(hit, crit, drop) ==
  /\ dropFits(gameState, drop)
  /\ Commit("attack", attack(gameState, hit, crit, drop))

SetGameMode(mode) == Commit("setGameMode", setGameMode(gameState, mode))

SelectAdventureSkill(skill) ==
  Commit("selectAdventureSkill", selectAdventureSkill(gameState, skill))

SkipAdventureSkills == Commit("skipAdventureSkills", skipAdventureSkills(gameState))

UseSkipCard == Commit("useSkipCard", useSkipCard(gameState))

(* the updater throws part-way: the state object, mutated in place up to  *)
(* the throw, stays the state                                             *)
Raise(name, s2) ==
  /\ gameState' = s2
  /\ UNCHANGED <<storage, now, enc, hook>>

ClaimDailyReward(special) ==
  IF canClaimDailyReward(gameState)
  THEN IF claimDailyRewardRaises(gameState)
       THEN /\ Bounded(claimDailyRewardCredited(gameState))
            /\ Raise("claimDailyReward", claimDailyRewardCredited(gameState))
       ELSE /\ gameState.dailyRewards.availableReward.special # "none"
                 => dropFits(gameState, special)
            /\ Commit("claimDailyReward",
                      claimDailyRewardUpdater(gameState, special, now))
  ELSE Reject("claimDailyReward")

UpgradeSkill ==
  IF canUpgradeSkill(gameState)
  THEN Commit("upgradeSkill", upgradeSkillUpdater(gameState))
  ELSE Reject("upgradeSkill")

Prestige ==
  IF canPrestige(gameState)
  THEN Commit("prestige", prestigeUpdater(gameState))
  ELSE Reject("prestige")

ClaimOfflineRewards == Commit("claimOfflineRewards", claimOfflineRewards(gameState))

PlantSeed ==
  IF canPlantSeed(gameState)
  THEN Commit("plantSeed", plantSeedUpdater(gameState, now))
  ELSE Reject("plantSeed")

BuyWater(hours) ==
  IF canBuyWater(gameState, hours)
  THEN Commit("buyWater", buyWaterUpdater(gameState, hours, now))
  ELSE Reject("buyWater")

AddCoins(amount) == Commit("addCoins", addCoins(gameState, amount))

AddGems(amount) == Commit("addGems", addGems(gameState, amount))

TeleportToZone(zone) == Commit("teleportToZone", teleportToZone(gameState, zone))

SetExperience(xp) == Commit("setExperience", setExperience(gameState, xp))

RollSkill(type, batch) ==
  IF canRollSkill(gameState)
  THEN Commit("rollSkill", rollSkillUpdater(gameState, type, batch, now))
  ELSE Reject("rollSkill")

(* resetGame replaces the state by a fresh one and saves it *)
ResetGame(batch) ==
  /\ gameState' = saveGameState(freshGameState(now, batch), now)
  /\ storage' = gameState'
  /\ enc' = NoEncounter
  /\ UNCHANGED <<now, hook>>

(* the periodic and the unload save *)
Save ==
  /\ gameState' = saveGameState(gameState, now)
  /\ storage' = gameState'
  /\ UNCHANGED <<now, enc, hook>>

(* the application is started again and loads the stored snapshot *)
Load(batch) ==
  /\ gameState' = collect(loadGameState(storage, now, batch))
  /\ enc' = NoEncounter
  /\ UNCHANGED <<storage, now, hook>>

Tick(d) ==
  /\ now + d <= MaxNow
  /\ now' = now + d
  /\ UNCHANGED <<gameState, storage, enc, hook>>

---------------------------------------------------------------------------

Init ==
  /\ now = 0
  /\ storage = Null
  /\ \E batch \in RelicBatches : gameState = freshGameState(0, batch)
  /\ enc = NoEncounter
  /\ hook = Unmounted

---------------------------------------------------------------------------
(* Specification of the equipment, relic and combat operations that       *)
(* recompute the derived stats.  Scope: one weapon and one relic owned,   *)
(* an enemy that neither dies nor kills within the run, no achievement.   *)

TrainingDummy == [hp |-> 100, atk |-> 11, def |-> 0]

StatsScope ==
  /\ gameState.achievements = {1}
  /\ Cardinality(gameState.inventory.weapons) <= 1
  /\ Cardinality(gameState.inventory.relics \cup gameState.inventory.equippedRelics) <= 1
  /\ gameState.playerStats.hp >= 98
  /\ gameState.statistics.totalVictories = 0
  /\ gameState.knowledgeStreak.current <= 1
  /\ gameState.inCombat => gameState.currentEnemy.hp >= 60

NextStats ==
  \/ \E d \in ItemDrops : GenerateCheatItem(d) /\ StatsScope'
  \/ \E a \in 1..MaxWeapons : EquipWeapon(a) /\ StatsScope'
  \/ \E a \in 1..MaxArmor : EquipArmor(a) /\ StatsScope'
  \/ \E id \in 1..MaxWeapons : UpgradeWeapon(id) /\ StatsScope'
  \/ \E id \in 1..MaxArmor : UpgradeArmor(id) /\ StatsScope'
  \/ \E ids \in SUBSET (1..MaxWeapons) : BulkUpgrade(ids, "weapon") /\ StatsScope'
  \/ \E ids \in SUBSET (1..MaxArmor) : BulkUpgrade(ids, "armor") /\ StatsScope'
  \/ StartCombat(TrainingDummy, FALSE) /\ StatsScope'
  \/ \E hit \in BOOLEAN : Attack(hit, FALSE, NoDrop) /\ StatsScope'
  \/ \E id \in 1..2 : PurchaseRelic(id) /\ StatsScope'
  \/ \E id \in RelicAddrs : EquipRelic(id) /\ StatsScope'
  \/ \E id \in RelicAddrs : UnequipRelic(id) /\ StatsScope'
  \/ \E id \in RelicAddrs : UpgradeRelic(id) /\ StatsScope'
  \/ SetGameMode("normal") /\ StatsScope'

SpecStats == Init /\ [][NextStats]_vars

(* C1: playerStats.atk and playerStats.def always equal the resolver       *)
(* formula with the durability ratio of the equipped weapon and armor, so *)
(* an equipped item of durability 0 contributes exactly 0.                *)
StatsFollowDurability ==
  LET inv == gameState.inventory
      w == inv.weaponObjs[inv.currentWeapon]
      a == inv.armorObjs[inv.currentArmor]
      weaponTerm == IF inv.currentWeapon = NoItem THEN 0
                    ELSE ((w.baseAtk + (w.level - 1) * 10) * w.durability)
                            \div w.maxDurability
      armorTerm == IF inv.currentArmor = NoItem THEN 0
                   ELSE ((a.baseDef + (a.level - 1) * 5) * a.durability)
                           \div a.maxDurability
      offense == SumOver({r \in inv.equippedRelics : inv.relicObjs[r].type = "weapon"},
                         [r \in RelicAddrs |->
                            IF inv.relicObjs[r] = Null THEN 0
                            ELSE inv.relicObjs[r].baseAtk
                                 + (inv.relicObjs[r].level - 1) * 22])
      defense == SumOver({r \in inv.equippedRelics : inv.relicObjs[r].type = "armor"},
                         [r \in RelicAddrs |->
                            IF inv.relicObjs[r] = Null THEN 0
                            ELSE inv.relicObjs[r].baseDef
                                 + (inv.relicObjs[r].level - 1) * 15])
      bonus == 12000 + gameState.gardenOfGrowth.totalGrowthBonus
  IN /\ gameState.playerStats.atk = ((BaseAtk + weaponTerm + offense) * bonus) \div 12000
     /\ gameState.playerStats.def = ((BaseDef + armorTerm + defense) * bonus) \div 12000

---------------------------------------------------------------------------
(* Specification of the currency ledger: every operation that deducts     *)
(* coins, gems or shiny gems, with the operations that credit them.       *)
(* Scope: one weapon, one armor piece and one relic at a time, nothing    *)
(* equipped, balances on a coarse grid near the prices.                   *)

(* the experience that takes a level-1 player to the prestige level *)
LevelFiftyXp ==
  SumOver(1..(PrestigeLevel - 1),
          [l \in 1..(PrestigeLevel - 1) |-> ThresholdTable[l]])

(* how many subsystems have left their initial condition *)
LedgerActivity ==
  LET one(b) == IF b THEN 1 ELSE 0
  IN one(gameState.cheats.infiniteCoins)
     + one(gameState.skills.activeMenuSkill # Null)
     + one(gameState.gardenOfGrowth.isPlanted)
     + one(gameState.progression.level > 1 \/ gameState.progression.prestigeLevel > 0)
     + one(gameState.inventory.weapons # {})
     + one(gameState.inventory.armor # {})
     + one(gameState.inventory.relics # {}
             \/ Cardinality(gameState.yojefMarket.items) < MarketSize)
     + one(gameState.shinyGems > 0)

LedgerScope ==
  /\ gameState.achievements = {1}
  /\ gameState.coins <= 1100
  /\ gameState.coins % 100 \in {0, 20}
  /\ gameState.gems <= 50
  /\ gameState.gems % 5 \in {0, 1}
  /\ Cardinality(gameState.inventory.weapons) <= 1
  /\ Cardinality(gameState.inventory.relics) <= 1
  /\ gameState.gardenOfGrowth.waterHoursRemaining <= 36 * MinutesPerHour
  /\ gameState.progression.skillPoints \in {0, 48, 49}
  /\ LedgerActivity <= 2

NextLedger ==
  \/ AddCoins(500) /\ LedgerScope'
  \/ AddGems(10) /\ LedgerScope'
  \/ \E isShiny \in BOOLEAN : MineGem(isShiny) /\ LedgerScope'
  \/ \E amount \in 1..2 : ExchangeShinyGems(amount) /\ LedgerScope'
  \/ \E reward \in ChestRewards(100) : OpenChest(100, reward, 0) /\ LedgerScope'
  \/ \E d \in ItemDrops : PurchaseMythical(600, d) /\ LedgerScope'
  \/ ToggleCheat /\ LedgerScope'
  \/ \E id \in 1..MaxWeapons : UpgradeWeapon(id) /\ LedgerScope'
  \/ \E id \in 1..MaxArmor : UpgradeArmor(id) /\ LedgerScope'
  \/ \E ids \in SUBSET (1..MaxWeapons) : BulkUpgrade(ids, "weapon") /\ LedgerScope'
  \/ \E id \in 1..MaxWeapons : SellWeapon(id) /\ LedgerScope'
  \/ \E id \in 1..MaxArmor : SellArmor(id) /\ LedgerScope'
  \/ \E ids \in SUBSET (1..MaxArmor) : BulkSell(ids, "armor") /\ LedgerScope'
  \/ \E id \in 1..2 : PurchaseRelic(id) /\ LedgerScope'
  \/ \E id \in RelicAddrs : UpgradeRelic(id) /\ LedgerScope'
  \/ \E id \in RelicAddrs : SellRelic(id) /\ LedgerScope'
  \/ PlantSeed /\ LedgerScope'
  \/ \E hours \in {12, 24} : BuyWater(hours) /\ LedgerScope'
  \/ \E b \in RelicBatches :
        RollSkill("coin_multiplier", b) /\ LedgerScope'
  \/ SetExperience(LevelFiftyXp) /\ LedgerScope'
  \/ UpgradeSkill /\ LedgerScope'
  \/ Prestige /\ LedgerScope'
  \/ ClaimOfflineRewards /\ LedgerScope'

SpecLedger == Init /\ [][NextLedger]_vars

(* C2: after any sequence of operations, each issued on the visible      *)
(* state, coins, gems and shiny gems are all at least 0.                  *)
CurrenciesNonNegative ==
  /\ gameState.coins >= 0
  /\ gameState.gems >= 0
  /\ gameState.shinyGems >= 0

(* both balances spent down to exactly zero, the last coins on the seed *)
LedgerDrained ==
  /\ gameState.coins = 0
  /\ gameState.gems = 0
  /\ gameState.gardenOfGrowth.isPlanted

---------------------------------------------------------------------------
(* Specification of the encounters of one session: combat, adventure      *)
(* skills and game mode, with no reset and no reload.  Scope: the first   *)
(* zones, short streaks, few deaths, no achievement, no item drop.        *)

FallbackSkills == {"phoenix", "divine_protection", "dodge"}

EncounterScope ==
  /\ gameState.achievements = {1}
  /\ gameState.zone <= 2
  /\ gameState.knowledgeStreak.current <= 2
  /\ gameState.statistics.totalDeaths <= 1
  /\ gameState.statistics.revivals <= 2
  /\ gameState.gameMode.survivalLives >= MaxSurvivalLives - 1

NextEncounters ==
  \/ \E e \in Enemies, offer \in BOOLEAN : StartCombat(e, offer) /\ EncounterScope'
  \/ \E hit \in BOOLEAN : Attack(hit, FALSE, NoDrop) /\ EncounterScope'
  \/ \E skill \in FallbackSkills : SelectAdventureSkill(skill) /\ EncounterScope'
  \/ SkipAdventureSkills /\ EncounterScope'
  \/ UseSkipCard /\ EncounterScope'
  \/ \E mode \in {"normal", "survival"} : SetGameMode(mode) /\ EncounterScope'

SpecEncounters == Init /\ [][NextEncounters]_vars

(* the step is the processing of one updater result *)
Processed(s2) ==
  \E ach \in SUBSET gameState.achievements :
    gameState' = collect(updateGameState(s2, ach))

StartCombatStep ==
  \E e \in Enemies, offer \in BOOLEAN : Processed(startCombat(gameState, e, offer))

AttackStep(hit) ==
  \E crit \in BOOLEAN : Processed(attack(gameState, hit, crit, NoDrop))

(* attack(false) in combat whose applied damage leaves hp <= 0 *)
LethalMiss ==
  /\ gameState.inCombat
  /\ gameState.currentEnemy # Null
  /\ enemyDamage(gameState) > 0
  /\ gameState.playerStats.hp - enemyDamage(gameState) <= 0
  /\ AttackStep(FALSE)

PhoenixReady ==
  /\ gameState.adventureSkills.selectedSkill = "phoenix"
  /\ ~hasEffect(gameState, "phoenixUsed")

DivineReady ==
  /\ gameState.adventureSkills.selectedSkill = "divine_protection"
  /\ ~hasEffect(gameState, "divineProtectionUsed")

DefeatTransition ==
  /\ ~gameState'.inCombat
  /\ gameState'.currentEnemy = Null
  /\ gameState'.statistics.totalDeaths = gameState.statistics.totalDeaths + 1
  /\ gameState'.gameMode.survivalLives =
        gameState.gameMode.survivalLives
          - (IF gameState.gameMode.current = "survival" THEN 1 ELSE 0)
  /\ gameState'.playerStats.hp = gameState'.playerStats.maxHp

(* C4: with no unused phoenix or divine protection of the selected skill  *)
(* and the free revival used, a lethal attack(false) is a defeat: combat  *)
(* ends, the enemy is removed, totalDeaths grows by 1, survivalLives      *)
(* drops by 1 exactly in survival mode, and hp is restored to maxHp.      *)
DefeatWhenExhausted ==
  [][(~PhoenixReady /\ ~DivineReady /\ gameState.hasUsedRevival /\ LethalMiss)
       => DefeatTransition]_vars

(* a defeat suffered in survival mode after the free revival was spent *)
SurvivalDefeat ==
  /\ gameState.statistics.totalDeaths >= 1
  /\ gameState.gameMode.current = "survival"
  /\ gameState.gameMode.survivalLives = MaxSurvivalLives - 1
  /\ gameState.hasUsedRevival
  /\ ~gameState.inCombat
  /\ gameState.playerStats.hp = gameState.playerStats.maxHp

(* C5 as claimed: within one encounter at most one of phoenix revival,    *)
(* divine protection and the free revival is marked used.                 *)
OneFallbackPerEncounter == enc.fallbacks <= 1

(* C5 as amended: one attack marks at most one of the three fallbacks     *)
(* used; successive lethal hits of an encounter may consume one each.     *)
OneFallbackPerHit ==
  [][newlySet("phoenixUsed", gameState, gameState')
       + newlySet("divineProtectionUsed", gameState, gameState')
       + (IF ~gameState.hasUsedRevival /\ gameState'.hasUsedRevival THEN 1 ELSE 0)
       <= 1]_vars

(* the phoenix revival and then the free revival consumed in one encounter *)
TwoFallbacksInEncounter ==
  /\ gameState.inCombat
  /\ enc.fallbacks = 2
  /\ hasEffect(gameState, "phoenixUsed")
  /\ gameState.hasUsedRevival

FreeRevivalUntouched ==
  /\ gameState'.hasUsedRevival = gameState.hasUsedRevival
  /\ gameState'.statistics.revivals = gameState.statistics.revivals

StillFighting ==
  /\ gameState'.inCombat
  /\ gameState'.currentEnemy # Null
  /\ gameState'.statistics.totalDeaths = gameState.statistics.totalDeaths

ChainOutcome ==
  IF PhoenixReady
  THEN /\ gameState'.playerStats.hp = gameState.playerStats.maxHp \div 2
       /\ hasEffect(gameState', "phoenixUsed")
       /\ FreeRevivalUntouched
       /\ StillFighting
  ELSE IF DivineReady
  THEN /\ gameState'.playerStats.hp = 1
       /\ hasEffect(gameState', "divineProtectionUsed")
       /\ FreeRevivalUntouched
       /\ StillFighting
  ELSE IF ~gameState.hasUsedRevival
  THEN /\ gameState'.playerStats.hp = gameState.playerStats.maxHp \div 2
       /\ gameState'.hasUsedRevival
       /\ gameState'.statistics.revivals = gameState.statistics.revivals + 1
       /\ gameState'.adventureSkills = gameState.adventureSkills
       /\ StillFighting
  ELSE /\ DefeatTransition
       /\ FreeRevivalUntouched

(* C6: a lethal hit fires exactly one branch, in the order unused phoenix *)
(* (hp = floor(maxHp/2)), unused divine protection (hp = 1), unused free  *)
(* revival (hp = floor(maxHp/2), revivals + 1), defeat; the free revival  *)
(* is kept while a skill fallback is unused and defeat waits for all.     *)
ChainPriority == [][LethalMiss => ChainOutcome]_vars

(* the phoenix has revived the player and the free revival is still there *)
PhoenixBeforeFreeRevival ==
  /\ gameState.inCombat
  /\ hasEffect(gameState, "phoenixUsed")
  /\ ~gameState.hasUsedRevival
  /\ enc.fallbacks = 1
  /\ gameState.playerStats.hp = gameState.playerStats.maxHp \div 2

(* C7 as claimed: in one session (no resetGame, no load) revivals grows   *)
(* by at most 1 and hasUsedRevival, once true, stays true.                *)
FreeRevivalOncePerSession ==
  [][/\ gameState.hasUsedRevival => gameState'.hasUsedRevival
     /\ gameState'.statistics.revivals <= 1]_vars

(* C7 as amended: the free revival is consumed at most once per          *)
(* encounter; hasUsedRevival, once true, stays true and revivals stays    *)
(* put until the next startCombat, which makes the revival available      *)
(* again.                                                                 *)
FreeRevivalOncePerEncounter ==
  [][/\ enc'.free <= 1
     /\ (gameState.hasUsedRevival /\ ~gameState'.hasUsedRevival) => StartCombatStep
     /\ gameState.hasUsedRevival =>
           gameState'.statistics.revivals = gameState.statistics.revivals]_vars

(* the free revival consumed again in a second encounter of the session *)
SecondFreeRevival ==
  /\ gameState.statistics.revivals = 2
  /\ gameState.hasUsedRevival
  /\ enc.free = 1

(* C9: in normal mode with no buff, no cheat and no achievement reward,   *)
(* each attack(true) either leaves a weakened living enemy or ends the    *)
(* encounter: zone + 1, not in combat, no enemy, and coins increased by   *)
(* floor((10 + 2*zone) * (1 + 0.1*s)), s the consecutive correct answers. *)
VictoryReward ==
  [][(/\ gameState.inCombat
      /\ gameState.currentEnemy # Null
      /\ gameState.gameMode.current = "normal"
      /\ gameState.skills.activeMenuSkill = Null
      /\ gameState.adventureSkills.selectedSkill = "none"
      /\ ~gameState.cheats.infiniteCoins
      /\ gameState'.achievements = gameState.achievements
      /\ AttackStep(TRUE))
       => IF gameState.currentEnemy.hp - gameState.playerStats.atk <= 0
          THEN /\ gameState'.zone = gameState.zone + 1
               /\ ~gameState'.inCombat
               /\ gameState'.currentEnemy = Null
               /\ gameState'.coins = gameState.coins
                     + ((10 + 2 * gameState.zone)
                          * (10 + gameState'.knowledgeStreak.current)) \div 10
               /\ gameState'.knowledgeStreak.current
                     = gameState.knowledgeStreak.current + 1
          ELSE /\ gameState'.inCombat
               /\ gameState'.currentEnemy.hp
                     = gameState.currentEnemy.hp - gameState.playerStats.atk
               /\ gameState'.zone = gameState.zone
               /\ gameState'.coins = gameState.coins]_vars

(* the first encounter of a fresh game won with two correct answers *)
FirstVictory ==
  /\ gameState.statistics.totalVictories = 1
  /\ gameState.statistics.totalDeaths = 0
  /\ gameState.zone = 2
  /\ gameState.knowledgeStreak.current = 2
  /\ ~gameState.inCombat
  /\ gameState.coins = createInitialGameState(0).coins + 14

---------------------------------------------------------------------------
(* Specification of a game that is saved, reloaded and reset between and  *)
(* during encounters.  Scope: normal mode, the phoenix skill, the first   *)
(* zones, one revival, one victory or defeat.                             *)

SessionScope ==
  /\ EncounterScope
  /\ gameState.knowledgeStreak.current <= 1
  /\ gameState.statistics.revivals <= 1
  /\ gameState.adventureSkills.selectedSkill \in {"none", "phoenix"}
  /\ gameState.statistics.totalDeaths + gameState.statistics.totalVictories <= 1

NextSession ==
  \/ \E e \in Enemies, offer \in BOOLEAN : StartCombat(e, offer) /\ SessionScope'
  \/ \E hit \in BOOLEAN : Attack(hit, FALSE, NoDrop) /\ SessionScope'
  \/ SelectAdventureSkill("phoenix") /\ SessionScope'
  \/ SkipAdventureSkills /\ SessionScope'
  \/ Save
  \/ \E b \in RelicBatches : Load(b) /\ SessionScope'
  \/ \E b \in RelicBatches : ResetGame(b)

SpecSession == Init /\ [][NextSession]_vars

(* the step replaces the state by the stored snapshot or by a fresh game *)
RestoreStep ==
  \E b \in RelicBatches :
    \/ gameState' = collect(loadGameState(storage, now, b))
    \/ gameState' = saveGameState(freshGameState(now, b), now)

---------------------------------------------------------------------------
(* Specification of the progression: experience from victories and from   *)
(* setExperience, and prestige.  Scope: the first zones, short streaks,   *)
(* no achievement.                                                        *)

XpInputs == {0, 99, 100, 220, 364, 5000, LevelFiftyXp}

ProgressionScope ==
  /\ gameState.achievements = {1}
  /\ gameState.zone <= 2
  /\ gameState.knowledgeStreak.current <= 2

NextProgression ==
  \/ \E e \in Enemies : StartCombat(e, FALSE) /\ ProgressionScope'
  \/ Attack(TRUE, FALSE, NoDrop) /\ ProgressionScope'
  \/ \E xp \in XpInputs : SetExperience(xp) /\ ProgressionScope'
  \/ Prestige /\ ProgressionScope'

SpecProgression == Init /\ [][NextProgression]_vars

(* experience needed to reach level l from level 1 with none left over *)
CumulativeXp ==
  [l \in 1..(Len(ThresholdTable) + 1) |->
     SumOver(1..(l - 1), [i \in 1..Len(ThresholdTable) |-> ThresholdTable[i]])]

(* how many successive thresholds, from that of level on, acc crosses *)
Crossed(level, acc) ==
  CHOOSE k \in 0..(Len(ThresholdTable) - level) :
    /\ CumulativeXp[level + k] - CumulativeXp[level] <= acc
    /\ acc < CumulativeXp[level + k + 1] - CumulativeXp[level]

SetExperienceStep(xp) == Processed(setExperience(gameState, xp))

(* the experience a victory step has awarded *)
XpAwarded == victoryXp([gameState' EXCEPT !.zone = gameState.zone])

(* C8: experience < experienceToNext after every attack, setExperience    *)
(* and prestige, and one XP award raises the level by exactly the number  *)
(* of successive thresholds floor(100 * 1.2^(level-1)) that the           *)
(* accumulated experience crosses.                                        *)
LevelUpLoop ==
  [][/\ gameState'.progression.experience >= 0
     /\ gameState'.progression.experience < gameState'.progression.experienceToNext
     /\ gameState'.progression.experienceToNext
           = ThresholdTable[gameState'.progression.level]
     /\ \A xp \in XpInputs :
           SetExperienceStep(xp) =>
             gameState'.progression.level
               = gameState.progression.level
                   + Crossed(gameState.progression.level, xp)
     /\ (/\ gameState'.statistics.totalVictories
               = gameState.statistics.totalVictories + 1
         /\ AttackStep(TRUE))
           => gameState'.progression.level
                = gameState.progression.level
                    + Crossed(gameState.progression.level,
                              gameState.progression.experience + XpAwarded)]_vars

(* one setExperience has taken a level-1 player across 49 thresholds *)
ManyThresholdsCrossed ==
  /\ gameState.progression.level = PrestigeLevel
  /\ gameState.progression.experience = 0
  /\ gameState.progression.skillPoints = PrestigeLevel - 1
  /\ gameState.progression.prestigeLevel = 0

---------------------------------------------------------------------------
(* Specification of the idle game: the clock advances, the state is saved *)
(* and loaded again, the garden is planted and watered, rewards are       *)
(* claimed and a menu skill is rolled.  Scope: four clock readings over   *)
(* two days, the 30-second auto-save has run before the clock advances,   *)
(* one idle subsystem at a time, no achievement.                          *)

(* how many idle subsystems have left their initial condition *)
IdleActivity ==
  LET one(b) == IF b THEN 1 ELSE 0
  IN one(gameState.gardenOfGrowth.isPlanted)
     + one(gameState.dailyRewards.lastClaimDate # NoDate)
     + one(gameState.skills.activeMenuSkill # Null)

IdleScope ==
  /\ gameState.achievements = {1}
  /\ gameState.coins <= 1100
  /\ gameState.coins % 100 \in {0, 20, 75}
  /\ gameState.gems <= 60
  /\ gameState.gardenOfGrowth.waterHoursRemaining <= 24 * MinutesPerHour
  /\ gameState.gardenOfGrowth.growthCm <= 4 * 120
  /\ gameState.dailyRewards.currentStreak <= 3
  /\ IdleActivity <= 1

NextIdle ==
  \/ \E d \in {120, MinutesPerDay - 120} :
        Tick(d) /\ storage = gameState /\ now' \in {120, MinutesPerDay, MinutesPerDay + 120}
  \/ Save
  \/ \E b \in RelicBatches : Load(b) /\ IdleScope'
  \/ AddCoins(500) /\ IdleScope'
  \/ PlantSeed /\ IdleScope'
  \/ BuyWater(12) /\ IdleScope'
  \/ ClaimDailyReward(NoDrop) /\ IdleScope'
  \/ ClaimOfflineRewards /\ IdleScope'
  \/ \E b \in RelicBatches : RollSkill("coin_multiplier", b) /\ IdleScope'

SpecIdle == Init /\ [][NextIdle]_vars

(* the step loads the stored snapshot at the present clock reading *)
LoadStep ==
  /\ storage # Null
  /\ \E b \in RelicBatches : gameState' = collect(loadGameState(storage, now, b))

(* C10: reconciliation is idempotent for a fixed now: applied again to    *)
(* the state a load has produced, with the same now, it changes no field. *)
ReconcileIdempotent ==
  [][LoadStep =>
       \A b \in RelicBatches : collect(reconcile(gameState', now, b)) = gameState']_vars

---------------------------------------------------------------------------
(* Specification of the daily reward: the clock advances over three days, *)
(* early and late in the day, the state is saved and loaded again and the *)
(* pending reward is claimed.  Scope: streaks up to 4, three claims, no   *)
(* achievement.                                                           *)

DailyScope ==
  /\ gameState.achievements = {1}
  /\ gameState.dailyRewards.currentStreak <= 4
  /\ Len(gameState.dailyRewards.rewardHistory) <= 3

(* early and late on each day *)
ClockReadings ==
  {d * MinutesPerDay + m : d \in 0..3, m \in {0, 120}}

NextDaily ==
  \/ \E d \in {120, MinutesPerDay - 120} : Tick(d) /\ now' \in ClockReadings
  \/ Save
  \/ \E b \in RelicBatches : Load(b) /\ DailyScope'
  \/ ClaimDailyReward(NoDrop) /\ DailyScope'

SpecDaily == Init /\ [][NextDaily]_vars

CalendarDay(t) == t \div MinutesPerDay

(* the step is a successful claimDailyReward *)
ClaimDailyRewardStep ==
  /\ canClaimDailyReward(gameState)
  /\ Processed(claimDailyRewardUpdater(gameState, NoDrop, now))

(* the streak the previous claim left; every claimed reward carries the   *)
(* streak of the reconciliation that created it                           *)
StreakOfLastClaim ==
  gameState.dailyRewards.rewardHistory[Len(gameState.dailyRewards.rewardHistory)].day

(* C11: a claim made on the calendar day after the previous claim leaves  *)
(* the streak exactly one above the streak the previous claim left; a     *)
(* reconciliation with at least two calendar days skipped since the last  *)
(* claim sets the streak to 1.                                            *)
StreakFollowsCalendarDays ==
  [][/\ ( /\ ClaimDailyRewardStep
          /\ gameState.dailyRewards.lastClaimDate # NoDate
          /\ CalendarDay(now) = CalendarDay(gameState.dailyRewards.lastClaimDate) + 1 )
        => gameState'.dailyRewards.currentStreak = StreakOfLastClaim + 1
     /\ ( /\ LoadStep
          /\ storage.dailyRewards.lastClaimDate # NoDate
          /\ CalendarDay(now) - CalendarDay(storage.dailyRewards.lastClaimDate) >= 3 )
        => gameState'.dailyRewards.currentStreak = 1
    ]_vars

(* the last claim is less than one day old *)
ClaimedWithinDay(s, t) ==
  /\ s.dailyRewards.lastClaimDate # NoDate
  /\ t - s.dailyRewards.lastClaimDate < MinutesPerDay

(* C12: a successful claimDailyReward leaves no pending reward, and as    *)
(* long as the last claim is less than one day old, reconciliations       *)
(* included, no reward is pending: claimDailyReward returns false and     *)
(* runs no update.                                                        *)
NoSecondClaimWithinDay ==
  [][/\ ClaimDailyRewardStep => gameState'.dailyRewards.availableReward = Null
     /\ ClaimedWithinDay(gameState', now') => ~canClaimDailyReward(gameState')
     /\ ClaimedWithinDay(gameState, now) => ~ClaimDailyRewardStep
    ]_vars

(* claimed at time 0, saved, loaded two hours later: nothing to claim *)
ClaimRejectedAfterReload ==
  /\ gameState.dailyRewards.lastClaimDate = 0
  /\ now = 120
  /\ gameState.offlineProgress.offlineCoins = 20
  /\ Len(gameState.dailyRewards.rewardHistory) = 1
  /\ ~canClaimDailyReward(gameState)

---------------------------------------------------------------------------
(* Specification of the timed menu skills: a skill of one or two hours is *)
(* rolled, the clock advances hour by hour, the state is saved and loaded *)
(* again.  Scope: the first four hours, no achievement.                   *)

BuffHorizon == 4 * MinutesPerHour

BuffTypes == {"treasurer", "coin_vacuum"}

BuffScope == gameState.achievements = {1}

NextBuff ==
  \/ Tick(MinutesPerHour) /\ now' <= BuffHorizon
  \/ Save
  \/ \E b \in RelicBatches : Load(b) /\ BuffScope'
  \/ \E type \in BuffTypes, b \in RelicBatches : RollSkill(type, b) /\ BuffScope'

SpecBuff == Init /\ [][NextBuff]_vars

(* C13: a reconciliation at time now removes the active menu skill when   *)
(* its expiresAt <= now, equality included, and leaves a skill with       *)
(* expiresAt > now in place.                                              *)
BuffClearedAtExpiry ==
  [][(LoadStep /\ storage.skills.activeMenuSkill # Null) =>
       IF storage.skills.activeMenuSkill.expiresAt <= now
       THEN gameState'.skills.activeMenuSkill = Null
       ELSE gameState'.skills.activeMenuSkill = storage.skills.activeMenuSkill
    ]_vars

---------------------------------------------------------------------------
(* Specification of the relic market: the clock advances minute by minute *)
(* around the five-minute cycle, offers are bought, the state is saved    *)
(* and loaded again.  Scope: the first twelve minutes, no achievement.    *)

MarketHorizon == 2 * MarketCycle + 2

MarketScope == gameState.achievements = {1}

NextMarket ==
  \/ \E d \in {1, MarketCycle} : Tick(d) /\ now' <= MarketHorizon
  \/ Save
  \/ \E b \in RelicBatches : Load(b) /\ MarketScope'
  \/ \E id \in RelicAddrs : PurchaseRelic(id) /\ MarketScope'

SpecMarket == Init /\ [][NextMarket]_vars

(* the offers of s, as relic objects *)
Offers(s) == {s.inventory.relicObjs[a] : a \in s.yojefMarket.items}

(* the offer list of the loaded state is a fresh batch of MarketSize relics *)
FreshOffers ==
  /\ Cardinality(gameState'.yojefMarket.items) = MarketSize
  /\ \E b \in RelicBatches :
       \A a \in gameState'.yojefMarket.items :
         \E i \in 1..Len(b) : gameState'.inventory.relicObjs[a] = [b[i] EXCEPT !.id = a]

MarketKept ==
  /\ gameState'.yojefMarket = storage.yojefMarket
  /\ Offers(gameState') = Offers(storage)

(* C14 as stated: a reconciliation with now > nextRefresh replaces the    *)
(* offers by 4 fresh relics and advances lastRefresh and nextRefresh by   *)
(* the 5-minute cycle; with now <= nextRefresh the market is unchanged.   *)
MarketAdvancedByCycle ==
  [][LoadStep =>
       IF now > storage.yojefMarket.nextRefresh
       THEN /\ FreshOffers
            /\ gameState'.yojefMarket.lastRefresh =
                 storage.yojefMarket.lastRefresh + MarketCycle
            /\ gameState'.yojefMarket.nextRefresh =
                 storage.yojefMarket.nextRefresh + MarketCycle
       ELSE MarketKept
    ]_vars

(* C14 amended: a reconciliation with now > nextRefresh replaces the      *)
(* offers by 4 fresh relics, sets lastRefresh to now and nextRefresh to   *)
(* now plus the 5-minute cycle; with now <= nextRefresh the market is     *)
(* unchanged.                                                             *)
MarketRefreshedAtNow ==
  [][LoadStep =>
       IF now > storage.yojefMarket.nextRefresh
       THEN /\ FreshOffers
            /\ gameState'.yojefMarket.lastRefresh = now
            /\ gameState'.yojefMarket.nextRefresh = now + MarketCycle
       ELSE MarketKept
    ]_vars

(* saved at minute 0, loaded at minute 7: refreshed at 7, next at 12 *)
MarketRefreshedLate ==
  /\ now = MarketCycle + 2
  /\ storage # Null
  /\ storage.yojefMarket.nextRefresh = MarketCycle
  /\ gameState.yojefMarket.lastRefresh = now
  /\ gameState.yojefMarket.nextRefresh = now + MarketCycle
  /\ Cardinality(gameState.yojefMarket.items) = MarketSize

---------------------------------------------------------------------------
(* Specification of the garden: a seed is planted, water is bought by the *)
(* day, the clock advances in half days, the state is saved and loaded    *)
(* again until the plant is fully grown.  Scope: nine days of water, the  *)
(* first day of the clock, no achievement.                                *)

HalfDay == 12 * MinutesPerHour

MaxWater == 9 * MinutesPerDay

GardenHorizon == 2 * HalfDay

GardenScope ==
  /\ gameState.achievements = {1}
  /\ gameState.coins \in {500, 1500}
  /\ gameState.gardenOfGrowth.waterHoursRemaining <= MaxWater

(* the 30-second auto-save has run since the last operation *)
Saved == storage \in {Null, gameState}

NextGarden ==
  \/ Tick(HalfDay) /\ storage = gameState /\ now' <= GardenHorizon
  \/ Save
  \/ \E b \in RelicBatches : Load(b) /\ GardenScope'
  \/ AddCoins(SeedCost) /\ Saved /\ GardenScope'
  \/ PlantSeed /\ Saved /\ GardenScope'
  \/ BuyWater(24) /\ Saved /\ GardenScope'

SpecGarden == Init /\ [][NextGarden]_vars

(* the garden fields in the units of the source: hours, cm, percent *)
GardenBounds(s) ==
  /\ s.gardenOfGrowth.waterHoursRemaining >= 0
  /\ s.gardenOfGrowth.growthCm >= 0
  /\ s.gardenOfGrowth.growthCm <= MaxGrowthCm * 120
  /\ s.gardenOfGrowth.totalGrowthBonus = 5 * s.gardenOfGrowth.growthCm

(* C15: with delta = now - lastWatered, a reconciliation of a planted and *)
(* watered garden sets water to max(0, water - delta), growth to          *)
(* min(maxGrowthCm, growth + 0.5*delta) exactly when the reduced water is *)
(* still > 0, and the bonus to 5 * growth; a garden that is not planted   *)
(* or has no water is unchanged.  In every state water >= 0, growth <=    *)
(* maxGrowthCm and bonus = 5 * growth.                                    *)
GardenReconciled ==
  /\ GardenBounds(gameState)
  /\ [][/\ GardenBounds(gameState')
        /\ LoadStep =>
             LET old == storage.gardenOfGrowth
                 new == gameState'.gardenOfGrowth
                 delta == now - old.lastWatered
             IN IF old.isPlanted /\ old.waterHoursRemaining > 0
                THEN /\ new.waterHoursRemaining =
                          (IF old.waterHoursRemaining - delta > 0
                           THEN old.waterHoursRemaining - delta ELSE 0)
                     /\ new.growthCm =
                          (IF new.waterHoursRemaining > 0
                           THEN (IF old.growthCm + delta < MaxGrowthCm * 120
                                 THEN old.growthCm + delta ELSE MaxGrowthCm * 120)
                           ELSE old.growthCm)
                     /\ new.totalGrowthBonus = 5 * new.growthCm
                     /\ new.isPlanted /\ new.lastWatered = old.lastWatered
                ELSE new = old
       ]_vars

(* the plant has reached its full height and the water has run out *)
FullyGrownAndDry ==
  /\ gameState.gardenOfGrowth.growthCm = MaxGrowthCm * 120
  /\ gameState.gardenOfGrowth.waterHoursRemaining = 0
  /\ gameState.gardenOfGrowth.totalGrowthBonus = 5 * MaxGrowthCm * 120

---------------------------------------------------------------------------
(* Specification of the offline accrual: the clock advances by minutes    *)
(* around the six-minute threshold and by eight hours around the cap, the *)
(* state is saved and loaded again and the staged rewards are claimed.    *)
(* Scope: two full accruals claimed, no achievement.                      *)

OfflineCap == MaxOfflineHours * MinutesPerHour

OfflineReadings == {6, 7, OfflineCap + 6, OfflineCap + 7, OfflineCap + 8}

OfflineScope ==
  /\ gameState.achievements = {1}
  /\ gameState.coins <= createInitialGameState(0).coins + 2 * MaxOfflineHours * 10
  /\ gameState.gems <= createInitialGameState(0).gems + 2 * MaxOfflineHours

NextOffline ==
  \/ \E d \in {1, 6, OfflineCap} : Tick(d) /\ now' \in OfflineReadings
  \/ Save
  \/ \E b \in RelicBatches : Load(b) /\ OfflineScope'
  \/ ClaimOfflineRewards /\ OfflineScope'

SpecOffline == Init /\ [][NextOffline]_vars

ClaimOfflineRewardsStep == Processed(claimOfflineRewards(gameState))

(* C16: a reconciliation leaves coins and gems as stored and stages       *)
(* floor(hours * 10) coins and floor(hours * 1) gems for hours =          *)
(* min(elapsed, maxOfflineHours), only when more than 0.1 h have elapsed, *)
(* so at most floor(maxOfflineHours * 10) coins are staged;               *)
(* claimOfflineRewards adds exactly the staged amounts and zeroes them,   *)
(* so a second claimOfflineRewards adds nothing.                          *)
OfflineStagedThenClaimed ==
  [][/\ LoadStep =>
          LET elapsed == now - storage.offlineProgress.lastSaveTime
              actual == IF elapsed < OfflineCap THEN elapsed ELSE OfflineCap
              new == gameState'.offlineProgress
          IN /\ gameState'.coins = storage.coins
             /\ gameState'.gems = storage.gems
             /\ IF elapsed * 10 > MinutesPerHour
                THEN /\ new.offlineCoins = (actual * 10) \div MinutesPerHour
                     /\ new.offlineGems = actual \div MinutesPerHour
                ELSE /\ new.offlineCoins = storage.offlineProgress.offlineCoins
                     /\ new.offlineGems = storage.offlineProgress.offlineGems
             /\ new.offlineCoins <= MaxOfflineHours * 10
     /\ ClaimOfflineRewardsStep =>
          /\ gameState'.coins = gameState.coins + gameState.offlineProgress.offlineCoins
          /\ gameState'.gems = gameState.gems + gameState.offlineProgress.offlineGems
          /\ gameState'.offlineProgress.offlineCoins = 0
          /\ gameState'.offlineProgress.offlineGems = 0
     /\ ( /\ ClaimOfflineRewardsStep
          /\ gameState.offlineProgress.offlineCoins = 0
          /\ gameState.offlineProgress.offlineGems = 0 )
          => /\ gameState'.coins = gameState.coins
             /\ gameState'.gems = gameState.gems
    ]_vars

(* more than eight hours offline: the capped accrual has been claimed *)
CappedAccrualClaimed ==
  /\ now = OfflineCap + 6
  /\ storage # Null
  /\ storage.offlineProgress.lastSaveTime = 0
  /\ gameState.coins = storage.coins + MaxOfflineHours * 10
  /\ gameState.gems = storage.gems + MaxOfflineHours
  /\ gameState.offlineProgress.offlineCoins = 0
  /\ gameState.offlineProgress.offlineGems = 0

---------------------------------------------------------------------------
(* Failure signalling of the operations, checked on the states of the     *)
(* ledger specification.                                                  *)

(* the state an updater result becomes when no achievement is unlocked *)
Outcome(s2) == collect(updateGameState(s2, {}))

WeaponCosts(s, ids) ==
  SumOver(ids, [w \in 1..MaxWeapons |-> s.inventory.weaponObjs[w].upgradeCost])

ArmorCosts(s, ids) ==
  SumOver(ids, [a \in 1..MaxArmor |-> s.inventory.armorObjs[a].upgradeCost])

(* C17: an operation that costs currency, and prestige, invoked with a    *)
(* balance (level) below its requirement changes no field of the state    *)
(* and, where it returns a result, returns false or null.                 *)
InsufficientRejected ==
  LET g == gameState
      owned == g.inventory.relics \cup g.inventory.equippedRelics
  IN /\ \A id \in g.inventory.weapons :
          g.gems < g.inventory.weaponObjs[id].upgradeCost
            => Outcome(upgradeWeapon(g, id)) = g
     /\ \A id \in g.inventory.armor :
          g.gems < g.inventory.armorObjs[id].upgradeCost
            => Outcome(upgradeArmor(g, id)) = g
     /\ \A id \in owned :
          g.gems < g.inventory.relicObjs[id].upgradeCost
            => Outcome(upgradeRelic(g, id)) = g
     /\ \A ids \in SUBSET g.inventory.weapons :
          g.gems < WeaponCosts(g, ids) => Outcome(bulkUpgrade(g, ids, "weapon")) = g
     /\ \A ids \in SUBSET g.inventory.armor :
          g.gems < ArmorCosts(g, ids) => Outcome(bulkUpgrade(g, ids, "armor")) = g
     /\ \A cost \in {100, 600} :
          g.coins < cost => ~canOpenChest(g, cost) /\ ~canPurchaseMythical(g, cost)
     /\ \A id \in g.yojefMarket.items :
          g.gems < g.inventory.relicObjs[id].cost => ~canPurchaseRelic(g, id)
     /\ g.coins < RollCost => ~canRollSkill(g)
     /\ g.coins < SeedCost => ~canPlantSeed(g)
     /\ \A hours \in {12, 24} :
          g.coins < (hours * WaterCost) \div 24 => ~canBuyWater(g, hours)
     /\ \A amount \in 1..2 :
          g.shinyGems < amount => ~canExchangeShinyGems(g, amount)
     /\ g.progression.level < PrestigeLevel => ~canPrestige(g)

(* no coin left for a roll, and a weapon whose upgrade the gems cannot pay *)
Penniless ==
  /\ gameState.coins < RollCost
  /\ \E id \in gameState.inventory.weapons :
       /\ gameState.gems < gameState.inventory.weaponObjs[id].upgradeCost
       /\ gameState.inventory.weaponObjs[id].level = MaxItemLevel

(* C18: an operation given an item or relic id that is not in the         *)
(* collection it addresses changes no field of the state, currencies and  *)
(* the statistics counters included.                                      *)
AbsentIdIgnored ==
  LET g == gameState
      owned == g.inventory.relics \cup g.inventory.equippedRelics
  IN /\ \A id \in (1..MaxWeapons) \ g.inventory.weapons :
          /\ Outcome(upgradeWeapon(g, id)) = g
          /\ Outcome(sellWeapon(g, id)) = g
     /\ \A id \in (1..MaxArmor) \ g.inventory.armor :
          /\ Outcome(upgradeArmor(g, id)) = g
          /\ Outcome(sellArmor(g, id)) = g
     /\ \A ids \in SUBSET ((1..MaxWeapons) \ g.inventory.weapons) :
          /\ Outcome(bulkUpgrade(g, ids, "weapon")) = g
          /\ Outcome(bulkSell(g, ids, "weapon")) = g
     /\ \A ids \in SUBSET ((1..MaxArmor) \ g.inventory.armor) :
          /\ Outcome(bulkUpgrade(g, ids, "armor")) = g
          /\ Outcome(bulkSell(g, ids, "armor")) = g
     /\ \A id \in RelicAddrs \ g.inventory.relics :
          /\ Outcome(equipRelic(g, id)) = g
          /\ Outcome(sellRelic(g, id)) = g
     /\ \A id \in RelicAddrs \ g.inventory.equippedRelics :
          Outcome(unequipRelic(g, id)) = g
     /\ \A id \in RelicAddrs \ owned :
          Outcome(upgradeRelic(g, id)) = g
     /\ \A id \in RelicAddrs \ g.yojefMarket.items :
          ~canPurchaseRelic(g, id)

(* C19: attack invoked while no encounter is active (inCombat false or    *)
(* currentEnemy null) leaves the whole state unchanged: streak,           *)
(* statistics, player hp, equipment durability and derived stats.         *)
AttackNeedsEncounter ==
  (~gameState.inCombat \/ gameState.currentEnemy = Null) =>
     \A hit \in BOOLEAN, crit \in BOOLEAN :
        Outcome(attack(gameState, hit, crit, NoDrop)) = gameState

(* between two encounters, with a running streak and a wounded player *)
IdleWithStreak ==
  /\ ~gameState.inCombat
  /\ gameState.currentEnemy = Null
  /\ gameState.knowledgeStreak.current > 0
  /\ gameState.statistics.totalVictories > 0
  /\ gameState.playerStats.hp < gameState.playerStats.maxHp

(* C20: equipWeapon (equipArmor) called with the weapon (armor) that is   *)
(* already equipped is a no-op: its durability, playerStats.atk/def and   *)
(* every other field are unchanged.                                       *)
EquipEquippedIsNoOp ==
  LET g == gameState
  IN /\ g.inventory.currentWeapon \in g.inventory.weapons
          => Outcome(equipWeapon(g, g.inventory.currentWeapon)) = g
     /\ g.inventory.currentArmor \in g.inventory.armor
          => Outcome(equipArmor(g, g.inventory.currentArmor)) = g

---------------------------------------------------------------------------
(* Specification of equipment wear in combat: items are generated and     *)
(* equipped, encounters are fought to their end in the normal and in the  *)
(* bloodlust mode.  Scope: at most one weapon and one armor piece owned,  *)
(* one kind of enemy met between encounters, short streaks, no            *)
(* achievement, no item drop.                                             *)

WearScope ==
  /\ gameState.achievements = {1}
  /\ Cardinality(gameState.inventory.weapons) <= 1
  /\ gameState.inventory.relics = {}
  /\ gameState.knowledgeStreak.current <= 2
  /\ gameState.statistics.totalDeaths <= 1
  /\ gameState.statistics.revivals <= 1
  /\ gameState.statistics.totalDeaths + gameState.statistics.totalVictories <= 2

NextWear ==
  \/ \E d \in ItemDrops : GenerateCheatItem(d) /\ WearScope'
  \/ \E a \in 1..MaxWeapons : EquipWeapon(a) /\ WearScope'
  \/ \E a \in 1..MaxArmor : EquipArmor(a) /\ WearScope'
  \/ \E e \in {x \in Enemies : x.hp = 40} :
        ~gameState.inCombat /\ StartCombat(e, FALSE) /\ WearScope'
  \/ \E hit \in BOOLEAN : Attack(hit, FALSE, NoDrop) /\ WearScope'
  \/ \E mode \in {"normal", "bloodlust"} : SetGameMode(mode) /\ WearScope'

SpecWear == Init /\ [][NextWear]_vars

EncounterActive == gameState.inCombat /\ gameState.currentEnemy # Null

(* the durability an attack leaves on an item of durability d *)
WornOnce(d) == IF d > 0 THEN d - 1 ELSE 0

(* C21: every attack processed while an encounter is active, on a correct *)
(* and on a wrong answer and also when it ends the encounter, lowers the  *)
(* durability of the equipped weapon and of the equipped armor by exactly *)
(* 1 when it is > 0 and leaves it at 0 otherwise; durability stays within *)
(* [0, maxDurability].                                                    *)
AttackWearsEquipment ==
  [][ \A hit \in BOOLEAN :
        (EncounterActive /\ AttackStep(hit)) =>
           LET inv == gameState.inventory
               inv2 == gameState'.inventory
           IN /\ inv2.currentWeapon = inv.currentWeapon
              /\ inv2.currentArmor = inv.currentArmor
              /\ inv.currentWeapon # NoItem =>
                    /\ inv2.weaponObjs[inv.currentWeapon].durability =
                          WornOnce(inv.weaponObjs[inv.currentWeapon].durability)
                    /\ inv2.weaponObjs[inv.currentWeapon].durability \in
                          0..inv2.weaponObjs[inv.currentWeapon].maxDurability
              /\ inv.currentArmor # NoItem =>
                    /\ inv2.armorObjs[inv.currentArmor].durability =
                          WornOnce(inv.armorObjs[inv.currentArmor].durability)
                    /\ inv2.armorObjs[inv.currentArmor].durability \in
                          0..inv2.armorObjs[inv.currentArmor].maxDurability ]_vars

(* two encounters won with the same weapon and armor, both worn down to 0 *)
(* before the last blow                                                   *)
WornOutInVictory ==
  /\ ~gameState.inCombat
  /\ gameState.statistics.totalVictories = 2
  /\ gameState.statistics.totalDeaths = 0
  /\ gameState.inventory.currentWeapon # NoItem
  /\ gameState.inventory.currentArmor # NoItem
  /\ currentWeaponObj(gameState).durability = 0
  /\ currentArmorObj(gameState).durability = 0

(* C22: while gameMode.current is 'bloodlust', after every operation      *)
(* playerStats.atk carries the doubling and playerStats.def and maxHp the *)
(* halving of the resolver formula; the weapon and armor terms are taken  *)
(* either at full value or scaled by the durability ratio.                *)
BloodlustStatsKept ==
  LET g == gameState
      bonus == 12000 + g.gardenOfGrowth.totalGrowthBonus
      weaponTerms == IF g.inventory.currentWeapon = NoItem THEN {0}
                     ELSE {weaponAtk(currentWeaponObj(g)),
                           effectiveWeaponAtk(currentWeaponObj(g))}
      armorTerms == IF g.inventory.currentArmor = NoItem THEN {0}
                    ELSE {armorDef(currentArmorObj(g)),
                          effectiveArmorDef(currentArmorObj(g))}
  IN g.gameMode.current = "bloodlust" =>
       /\ \E w \in weaponTerms :
             g.playerStats.atk = ((BaseAtk + w + relicAtkBonus(g)) * 2 * bonus) \div 12000
       /\ \E a \in armorTerms :
             g.playerStats.def = ((BaseDef + a + relicDefBonus(g)) * bonus) \div 24000
       /\ g.playerStats.maxHp = (BaseHp * bonus) \div 24000

---------------------------------------------------------------------------
(* Specification of the chest draw: chests of one price are opened on the *)
(* gem branch with the rarity drawn from a weight vector; coins are       *)
(* topped up in between.  Scope: no achievement, fixed bonus gems.        *)

ChestCost == 100
ChestBonus == 5

StandardWeights == <<60, 25, 10, 4, 1>>

ChestWeights ==
  { StandardWeights, <<100, 0, 0, 0, 0>>, <<0, 100, 0, 0, 0>>,
    <<0, 0, 0, 0, 100>>, <<20, 20, 20, 20, 20>>, <<50, 0, 49, 0, 1>> }

(* draws in [0, 100), in thousandths: both ends and the tier boundaries *)
ChestDraws ==
  { 0, 1, 19999, 20000, 20001, 50000, 50001, 59999, 60000, 60001, 85000,
    85001, 95000, 98999, 99000, 99001, 99999 }

ChestScope ==
  /\ gameState.achievements = {1}
  /\ gameState.coins <= 1000

NextChest ==
  \/ \E w \in ChestWeights, r \in ChestDraws :
        OpenChest(ChestCost, gemReward(ChestCost, w, r), ChestBonus) /\ ChestScope'
  \/ AddCoins(500) /\ ChestScope'

SpecChest == Init /\ [][NextChest]_vars

RECURSIVE CumulativeWeight(_, _)
CumulativeWeight(weights, i) ==
  IF i = 0 THEN 0 ELSE weights[i] + CumulativeWeight(weights, i - 1)

OpenChestStep(weights, random) ==
  /\ canOpenChest(gameState, ChestCost)
  /\ Processed(openChestUpdater(gameState, ChestCost,
                                gemReward(ChestCost, weights, random), ChestBonus))

(* C23: for every weight vector of five non-negative numbers summing to   *)
(* 100 and every draw r in [0,100), openChest selects the first tier of   *)
(* (common, rare, epic, legendary, mythical) whose cumulative weight is   *)
(* >= r, and some tier is always selected; with weights [60,25,10,4,1] a  *)
(* draw of 0 gives common and a draw of 99.999 gives mythical.            *)
RarityIsFirstCoveringTier ==
  [][ \A w \in ChestWeights, r \in ChestDraws :
        OpenChestStep(w, r) =>
          /\ \E i \in 1..5 :
                /\ CumulativeWeight(w, i) * DrawScale >= r
                /\ \A j \in 1..(i - 1) : CumulativeWeight(w, j) * DrawScale < r
                /\ gameState'.gems =
                      gameState.gems + chestGems(ChestCost, RarityTiers[i]) + ChestBonus
          /\ (w = StandardWeights /\ r = 0) =>
                gameState'.gems = gameState.gems + chestGems(ChestCost, "common") + ChestBonus
          /\ (w = StandardWeights /\ r = 99999) =>
                gameState'.gems = gameState.gems + chestGems(ChestCost, "mythical") + ChestBonus
    ]_vars

(* one chest opened from the initial balance, paid as a mythical gem reward *)
MythicalDrawn ==
  /\ gameState.coins = 500 - ChestCost
  /\ gameState.gems = 50 + chestGems(ChestCost, "mythical") + ChestBonus

---------------------------------------------------------------------------
(* Adventure skills across encounters *)

SkillsCleared(s) ==
  /\ s.adventureSkills.selectedSkill = "none"
  /\ s.adventureSkills.skillEffects = NoSkillEffects

(* the attack that ends the encounter, by victory or by defeat *)
EncounterEndStep ==
  /\ EncounterActive
  /\ \E hit \in BOOLEAN : AttackStep(hit)
  /\ ~gameState'.inCombat

(* C24: immediately after every startCombat, whether or not the skill     *)
(* offer is shown, adventureSkills.selectedSkill is null and every flag   *)
(* of adventureSkills.skillEffects is false; the same holds immediately   *)
(* after every victory and every defeat.                                  *)
SkillsResetAtEncounterBounds ==
  [][ (StartCombatStep \/ EncounterEndStep) => SkillsCleared(gameState') ]_vars

---------------------------------------------------------------------------
(* Specification of skill selection within encounters, with the history   *)
(* of fired one-shot effects switched on.  Scope: encounters are started  *)
(* between encounters and always offer skills, skills are selected and    *)
(* skipped only during an encounter, so every selection seen belongs to   *)
(* the current encounter;                                                 *)
(* one kind of enemy, short streaks, no achievement, no item drop.        *)

SelectableSkills ==
  {"lightning_chain", "berserker", "metal_shield", "dodge", "phoenix",
   "divine_protection"}

SkillsScope ==
  /\ gameState.achievements = {1}
  /\ gameState.zone <= 2
  /\ gameState.knowledgeStreak.current <= 1
  /\ gameState.statistics.totalDeaths <= 1
  /\ gameState.statistics.revivals <= 1
  /\ Cardinality(gameState.adventureSkills.skillEffects) <= 2
  /\ Cardinality(enc.fired) <= 2

InitWatched ==
  /\ now = 0
  /\ storage = Null
  /\ \E batch \in RelicBatches : gameState = freshGameState(0, batch)
  /\ enc = [NoEncounter EXCEPT !.watch = TRUE]
  /\ hook = Unmounted

NextSkills ==
  \/ \E e \in {x \in Enemies : x.hp = 40} :
        ~gameState.inCombat /\ StartCombat(e, TRUE) /\ SkillsScope'
  \/ \E hit \in BOOLEAN : Attack(hit, FALSE, NoDrop) /\ SkillsScope'
  \/ \E skill \in SelectableSkills :
        EncounterActive /\ SelectAdventureSkill(skill) /\ SkillsScope'
  \/ EncounterActive /\ SkipAdventureSkills /\ SkillsScope'
  \/ UseSkipCard /\ SkillsScope'

SpecSkills == InitWatched /\ [][NextSkills]_vars

(* the flags named '...Active' *)
ActiveFlags ==
  SkillEffectFlags \ (ConsumableFlags \cup {"skipCardUsed", "shadowStepUsed"})

SelectStep(skill) == Processed(selectAdventureSkill(gameState, skill))

(* C25: at most one adventure skill is selected per encounter: in every   *)
(* reachable state at most one of the '...Active' flags is true, and once *)
(* selectAdventureSkill has taken effect in an encounter a further        *)
(* selectAdventureSkill in the same encounter does not change             *)
(* selectedSkill or activate a second effect.                             *)
OneSkillPerEncounter ==
  /\ [](Cardinality(gameState.adventureSkills.skillEffects \cap ActiveFlags) <= 1)
  /\ [][ \A skill \in SelectableSkills :
           (/\ EncounterActive
            /\ gameState.adventureSkills.selectedSkill # "none"
            /\ SelectStep(skill))
           => gameState'.adventureSkills = gameState.adventureSkills ]_vars

(* C26: within one encounter, under any interleaving of attack,           *)
(* selectAdventureSkill, skipAdventureSkills and useSkipCard, each        *)
(* consumable effect fires at most once: metal_shield zeroes the damage   *)
(* of at most one enemy attack, dodge of at most one, phoenix revives at  *)
(* most once and divine_protection saves at most once.                    *)
EachConsumableOnce == enc.refired = {}

---------------------------------------------------------------------------
(* Specification of loading damaged snapshots: the stored snapshot is     *)
(* replaced by unparseable text, loses a top-level property, or keeps a   *)
(* nested object with none of its properties; the game is then loaded and *)
(* the daily reward claimed.  Scope: as the daily-reward specification,   *)
(* one damage per stored snapshot.                                        *)

DroppableFields == {"dailyRewards", "offlineProgress", "statistics", "inventory"}

(* the snapshot without the top-level property f *)
withoutField(snap, f) == [g \in DOMAIN snap \ {f} |-> snap[g]]

(* the snapshot whose nested object obj is stored as {}: every property   *)
(* of it is absent; the values kept in their place are the ones that read *)
(* like undefined (no date, no reward)                                    *)
hollowed(snap, obj) ==
  [snap EXCEPT ![obj] = createInitialGameState(0)[obj],
               !.absent = @ \cup {<<obj, f>> : f \in DOMAIN snap[obj]}]

HollowObjects == {"dailyRewards", "offlineProgress"}

Intact(snap) ==
  /\ snap # Null
  /\ snap # Garbled
  /\ DOMAIN snap = DOMAIN createInitialGameState(0)
  /\ snap.absent = {}

Corrupt ==
  /\ Intact(storage)
  /\ storage' \in {Garbled}
                  \cup {withoutField(storage, f) : f \in DroppableFields}
                  \cup {hollowed(storage, obj) : obj \in HollowObjects}
  /\ UNCHANGED <<gameState, now, enc, hook>>

CorruptScope ==
  /\ DailyScope
  /\ gameState.coins <= 800

(* early and late on the first day, early on the second *)
CorruptReadings == {0, 120, MinutesPerDay}

NextCorrupt ==
  \/ \E d \in {120, MinutesPerDay - 120} : Tick(d) /\ now' \in CorruptReadings
  \/ Intact(gameState) /\ Save
  \/ Corrupt
  \/ \E b \in RelicBatches : Load(b) /\ CorruptScope'
  \/ ClaimDailyReward(NoDrop) /\ CorruptScope'

SpecCorrupt == Init /\ [][NextCorrupt]_vars

(* C27: for any stored snapshot (unparseable text, or parseable JSON in   *)
(* which required top-level or nested fields are absent) loading ends     *)
(* with a game state in which every field of the default state is         *)
(* present, and no operation invoked afterwards (claimDailyReward) raises *)
(* because of a missing field.                                            *)
DamagedSnapshotTolerated ==
  /\ DOMAIN gameState = DOMAIN createInitialGameState(0)
  /\ gameState.absent = {}
  /\ ~(canClaimDailyReward(gameState) /\ claimDailyRewardRaises(gameState))

---------------------------------------------------------------------------
(* Specification of the damage of a correct answer: a weapon is generated *)
(* and equipped, the damage buff is rolled, a damage skill is selected    *)
(* and a sturdy enemy is attacked.  Scope: one weapon, streaks up to 2,   *)
(* at most two skill flags set, one victory, no achievement.              *)

DamageSkills ==
  {"lightning_chain", "berserker", "critical_strike", "double_strike", "ramp"}

DamageScope ==
  /\ gameState.achievements = {1}
  /\ Cardinality(gameState.inventory.weapons) <= 1
  /\ gameState.coins >= 400
  /\ gameState.playerStats.hp >= 99
  /\ gameState.knowledgeStreak.current <= 2
  /\ gameState.statistics.totalVictories <= 1
  /\ Cardinality(gameState.adventureSkills.skillEffects) <= 2

NextDamage ==
  \/ \E d \in WeaponDrops : GenerateCheatItem(d) /\ DamageScope'
  \/ \E a \in 1..MaxWeapons : EquipWeapon(a) /\ DamageScope'
  \/ \E b \in RelicBatches : RollSkill("damage_boost", b) /\ DamageScope'
  \/ ~gameState.inCombat /\ StartCombat(TrainingDummy, TRUE) /\ DamageScope'
  \/ \E skill \in DamageSkills :
        EncounterActive /\ SelectAdventureSkill(skill) /\ DamageScope'
  \/ \E hit \in BOOLEAN, crit \in BOOLEAN :
        Attack(hit, crit, NoDrop) /\ DamageScope'

SpecDamage == Init /\ [][NextDamage]_vars

(* a correct answer processed during an encounter, with the outcome crit  *)
(* of the critical-strike draw                                            *)
CorrectAnswerStep(crit) ==
  /\ EncounterActive
  /\ Processed(attack(gameState, TRUE, crit, NoDrop))

SkillIs(s, skill, flag) ==
  s.adventureSkills.selectedSkill = skill /\ flag \in s.adventureSkills.skillEffects

(* S of the claim; the streak is the one the answer has just raised *)
ClaimedSkillDamage(s, x) ==
  IF SkillIs(s, "lightning_chain", "lightningChainActive") THEN x * 2
  ELSE IF SkillIs(s, "berserker", "berserkerActive") THEN x * 3
  ELSE IF SkillIs(s, "double_strike", "doubleStrikeActive") THEN x * 2
  ELSE IF SkillIs(s, "ramp", "rampActive")
       THEN (x * (4 + s.knowledgeStreak.current + 1)) \div 4
  ELSE x

(* S with the critical strike: x4 when the 25% draw succeeds *)
SkillDamageWithCrit(s, x, crit) ==
  IF SkillIs(s, "critical_strike", "criticalStrikeActive") /\ crit THEN x * 4
  ELSE ClaimedSkillDamage(s, x)

BuffDamage(s, x) ==
  IF s.skills.activeMenuSkill # Null /\ s.skills.activeMenuSkill.type = "damage_boost"
  THEN x * 2 ELSE x

(* the enemy loses exactly amount hp, or is defeated by it *)
EnemyLoses(amount) ==
  IF gameState'.inCombat
  THEN gameState'.currentEnemy.hp = gameState.currentEnemy.hp - amount
  ELSE gameState.currentEnemy.hp - amount <= 0

---------------------------------------------------------------------------
(* Two calls issued on one render.  An operation reads the gameState of   *)
(* the render it was created in, checks it, and queues its updater;       *)
(* setGameState runs the queued updaters one after the other, the second  *)
(* on the result of the first.  Two calls of one render therefore check   *)
(* the same snapshot g, and the second updater never sees that check      *)
(* again.                                                                 *)

MythicalCost == 400

PurchaseCalls ==
  {[op |-> "openChest"], [op |-> "purchaseMythical"], [op |-> "rollSkill"],
   [op |-> "plantSeed"], [op |-> "buyWater"], [op |-> "exchangeShinyGems"]}
  \cup {[op |-> "purchaseRelic", id |-> a] : a \in RelicAddrs}

(* the call-site check of call c, made on the snapshot g *)
canCall(g, c) ==
  CASE c.op = "openChest" -> canOpenChest(g, ChestCost)
    [] c.op = "purchaseMythical" -> canPurchaseMythical(g, MythicalCost)
    [] c.op = "rollSkill" -> canRollSkill(g)
    [] c.op = "plantSeed" -> canPlantSeed(g)
    [] c.op = "buyWater" -> canBuyWater(g, 24)
    [] c.op = "exchangeShinyGems" -> canExchangeShinyGems(g, 1)
    [] c.op = "purchaseRelic" -> canPurchaseRelic(g, c.id)

(* the updater of call c, created on the snapshot g, applied to s *)
callUpdater(s, g, c, t) ==
  CASE c.op = "openChest" ->
         openChestUpdater(s, ChestCost,
                          [type |-> "gems", gems |-> chestGems(ChestCost, "common")],
                          ChestBonus)
    [] c.op = "purchaseMythical" ->
         purchaseMythicalUpdater(s, MythicalCost,
                                 CHOOSE d \in WeaponDrops : TRUE)
    [] c.op = "rollSkill" ->
         rollSkillUpdater(s, "coin_multiplier",
                          CHOOSE b \in RelicBatches : TRUE, t)
    [] c.op = "plantSeed" -> plantSeedUpdater(s, t)
    [] c.op = "buyWater" -> buyWaterUpdater(s, 24, t)
    [] c.op = "exchangeShinyGems" -> exchangeShinyGemsUpdater(s, 1)
    [] c.op = "purchaseRelic" -> purchaseRelicUpdater(s, g, c.id)

(* the currency a call spends, and how much of it *)
callCurrency(c) ==
  CASE c.op = "purchaseRelic" -> "gems"
    [] c.op = "exchangeShinyGems" -> "shinyGems"
    [] OTHER -> "coins"

callCost(g, c) ==
  CASE c.op = "openChest" -> ChestCost
    [] c.op = "purchaseMythical" -> MythicalCost
    [] c.op = "rollSkill" -> RollCost
    [] c.op = "plantSeed" -> SeedCost
    [] c.op = "buyWater" -> waterPrice(24)
    [] c.op = "exchangeShinyGems" -> 1
    [] c.op = "purchaseRelic" -> g.inventory.relicObjs[c.id].cost

balance(s, currency) ==
  CASE currency = "gems" -> s.gems
    [] currency = "shinyGems" -> s.shinyGems
    [] OTHER -> s.coins

(* the state after the updaters of c1 and c2, both created on g, have run *)
twoCalls(g, c1, c2, t) ==
  callUpdater(Outcome(callUpdater(g, g, c1, t)), g, c2, t)

(* the inventory of the model has room for what the call adds *)
callFits(s, c) == c.op = "purchaseMythical" => hasFreeWeaponSlot(s)

twoCallsFit(g, c1, c2, t) ==
  /\ callFits(g, c1)
  /\ callFits(Outcome(callUpdater(g, g, c1, t)), c2)

TwoCalls(c1, c2) ==
  /\ canCall(gameState, c1)
  /\ canCall(gameState, c2)
  /\ twoCallsFit(gameState, c1, c2, now)
  /\ Commit("twoCalls", twoCalls(gameState, c1, c2, now))

(* reward.coins of a reward that is null throws before anything is written *)
claimDailyRewardDereferencesNull(s) == s.dailyRewards.availableReward = Null

(* two claimDailyReward calls of one render: the second updater runs on   *)
(* the result of the first                                                *)
ClaimDailyRewardTwice ==
  /\ canClaimDailyReward(gameState)
  /\ ~claimDailyRewardRaises(gameState)
  /\ gameState.dailyRewards.availableReward.special = "none"
  /\ LET s1 == Outcome(claimDailyRewardUpdater(gameState, NoDrop, now))
     IN IF claimDailyRewardDereferencesNull(s1)
        THEN Commit("claimDailyReward",
                    claimDailyRewardUpdater(gameState, NoDrop, now))
        ELSE Commit("claimDailyReward",
                    claimDailyRewardUpdater(s1, NoDrop, now))

(* two calls that spend the same currency, of which the snapshot's        *)
(* balance covers only one                                                *)
CoversOnlyOne(g, c1, c2) ==
  /\ canCall(g, c1)
  /\ canCall(g, c2)
  /\ callCurrency(c1) = callCurrency(c2)
  /\ balance(g, callCurrency(c1)) < callCost(g, c1) + callCost(g, c2)

(* no balance is overdrawn *)
Solvent(s) == s.coins >= 0 /\ s.gems >= 0 /\ s.shinyGems >= 0

RaceScope ==
  /\ gameState.achievements = {1}
  /\ ~gameState.cheats.infiniteCoins
  /\ gameState.coins <= SeedCost
  /\ gameState.gems <= 80
  /\ gameState.gardenOfGrowth.waterHoursRemaining <= 72 * MinutesPerHour

(* calls are issued while the player is solvent; two calls of one render *)
(* that the balance covers both are two single calls one after the other *)
NextRaces ==
  \/ Solvent(gameState) /\ AddCoins(500) /\ RaceScope'
  \/ Solvent(gameState) /\ MineGem(TRUE) /\ RaceScope'
  \/ \E c \in PurchaseCalls :
        /\ Solvent(gameState)
        /\ canCall(gameState, c)
        /\ callFits(gameState, c)
        /\ Commit(c.op, callUpdater(gameState, gameState, c, now))
        /\ RaceScope'
  \/ \E c1 \in PurchaseCalls, c2 \in PurchaseCalls :
        /\ Solvent(gameState)
        /\ CoversOnlyOne(gameState, c1, c2)
        /\ TwoCalls(c1, c2)
        /\ RaceScope'

SpecRaces == Init /\ [][NextRaces]_vars

NextClaims ==
  \/ NextDaily
  \/ ClaimDailyRewardTwice /\ DailyScope'

SpecClaims == Init /\ [][NextClaims]_vars

(* C29: when two claimDailyReward calls pass the pending-reward check on  *)
(* the same snapshot, the second update leaves the state as the first     *)
(* left it and raises no error, and the reward is credited exactly once.  *)
SecondClaimIsSilent ==
  (/\ canClaimDailyReward(gameState)
   /\ ~claimDailyRewardRaises(gameState)
   /\ gameState.dailyRewards.availableReward.special = "none")
  => LET s1 == Outcome(claimDailyRewardUpdater(gameState, NoDrop, now))
     IN /\ ~claimDailyRewardDereferencesNull(s1)
        /\ Outcome(claimDailyRewardUpdater(s1, NoDrop, now)) = s1

(* C30: when two of openChest, purchaseMythical, purchaseRelic,           *)
(* rollSkill, plantSeed, buyWater and exchangeShinyGems are issued on the *)
(* same snapshot whose balance covers only one of them, at most one takes *)
(* effect and the balance does not become negative.                       *)
AtMostOneTakesEffect ==
  [][\A c1 \in PurchaseCalls, c2 \in PurchaseCalls :
       (/\ CoversOnlyOne(gameState, c1, c2)
        /\ twoCallsFit(gameState, c1, c2, now)
        /\ gameState' = Outcome(twoCalls(gameState, c1, c2, now)))
       => /\ gameState' \in {gameState,
                             Outcome(callUpdater(gameState, gameState, c1, now)),
                             Outcome(callUpdater(gameState, gameState, c2, now))}
          /\ balance(gameState', callCurrency(c1)) >= 0]_vars

---------------------------------------------------------------------------
(* Specification of combat under a timed menu skill: a skill is rolled,   *)
(* the clock advances past its expiry, the state is saved and loaded, an  *)
(* encounter is fought.  Scope: the first six hours, one save, one        *)
(* victory, one miss, no achievement.                                     *)

ExpiryHorizon == 6 * MinutesPerHour

ExpiryTypes == {"magic_shield", "coin_multiplier", "damage_boost"}

ExpiryScope ==
  /\ gameState.achievements = {1}
  /\ gameState.coins >= 300
  /\ gameState.knowledgeStreak.current <= 1
  /\ gameState.statistics.totalVictories <= 1
  /\ gameState.statistics.totalDeaths = 0
  /\ gameState.playerStats.hp >= BaseHp - TrainingDummy.atk

NextExpiry ==
  \/ Tick(3 * MinutesPerHour) /\ now' <= ExpiryHorizon
  \/ ~gameState.inCombat /\ storage = Null /\ Save
  \/ \E b \in RelicBatches : ~gameState.inCombat /\ Load(b) /\ ExpiryScope'
  \/ \E type \in ExpiryTypes, b \in RelicBatches :
        ~gameState.inCombat /\ RollSkill(type, b) /\ ExpiryScope'
  \/ /\ ~gameState.inCombat
     /\ StartCombat([TrainingDummy EXCEPT !.hp = 40], FALSE)
     /\ ExpiryScope'
  \/ \E hit \in BOOLEAN : Attack(hit, FALSE, NoDrop) /\ ExpiryScope'

SpecExpiry == Init /\ [][NextExpiry]_vars

(* the menu skill is past its expiresAt at time t *)
buffExpired(s, t) ==
  s.skills.activeMenuSkill # Null /\ t > s.skills.activeMenuSkill.expiresAt

withoutBuff(s) == [s EXCEPT !.skills.activeMenuSkill = Null]

(* C31: an attack processed later than the menu skill's expiresAt deals   *)
(* the damage, takes the damage and pays the victory rewards of a state   *)
(* with no active menu skill.                                             *)
ExpiredBuffIgnored ==
  [][\A hit \in BOOLEAN :
       (/\ EncounterActive
        /\ buffExpired(gameState, now)
        /\ gameState' = Outcome(attack(gameState, hit, FALSE, NoDrop)))
       => withoutBuff(gameState')
            = Outcome(attack(withoutBuff(gameState), hit, FALSE, NoDrop))]_vars

---------------------------------------------------------------------------
(* The streak record, checked on the states of the daily-reward          *)
(* specification.                                                         *)

(* C32: dailyRewards.maxStreak >= dailyRewards.currentStreak in every     *)
(* reachable state, the first reconciliation that seeds the streak at 1   *)
(* included.                                                              *)
MaxStreakCoversStreak ==
  gameState.dailyRewards.maxStreak >= gameState.dailyRewards.currentStreak

---------------------------------------------------------------------------
(* Specification of the player's health: encounters are fought, the game  *)
(* mode is changed, menu skills are rolled, the player prestiges (level   *)
(* fifty is reached by setExperience).  Scope: two rolls, one victory,    *)
(* one death, short streaks, no achievement.                              *)

VitalTypes == {"health_boost", "stat_amplifier", "treasurer"}

VitalModes == {"normal", "bloodlust", "survival"}

VitalsScope ==
  /\ gameState.achievements = {1}
  /\ gameState.coins >= 300
  /\ gameState.knowledgeStreak.current <= 1
  /\ gameState.statistics.totalVictories <= 1
  /\ gameState.statistics.totalDeaths <= 1
  /\ gameState.statistics.revivals <= 1

NextVitals ==
  \/ /\ ~gameState.inCombat
     /\ StartCombat([TrainingDummy EXCEPT !.hp = 40, !.atk = 60], FALSE)
     /\ VitalsScope'
  \/ \E hit \in BOOLEAN : Attack(hit, FALSE, NoDrop) /\ VitalsScope'
  \/ \E mode \in VitalModes : SetGameMode(mode) /\ VitalsScope'
  \/ \E type \in VitalTypes, b \in RelicBatches :
        ~gameState.inCombat /\ RollSkill(type, b) /\ VitalsScope'
  \/ ~gameState.inCombat /\ SetExperience(LevelFiftyXp) /\ VitalsScope'
  \/ Prestige /\ VitalsScope'

SpecVitals == Init /\ [][NextVitals]_vars

(* C33: 0 < playerStats.hp <= playerStats.maxHp in every state reached by *)
(* attack, startCombat, setGameMode, rollSkill and prestige.              *)
HpWithinMaxHp ==
  /\ 0 < gameState.playerStats.hp
  /\ gameState.playerStats.hp <= gameState.playerStats.maxHp

---------------------------------------------------------------------------
(* Specification of the survival lives: the mode is chosen, encounters    *)
(* with an enemy whose every blow is lethal are started and lost.  Scope: *)
(* four defeats, no victory, no achievement.                              *)

Executioner == [TrainingDummy EXCEPT !.atk = 200]

LivesScope ==
  /\ gameState.achievements = {1}
  /\ gameState.statistics.totalDeaths <= MaxSurvivalLives + 1
  /\ gameState.statistics.totalVictories = 0

NextLives ==
  \/ \E mode \in {"normal", "survival"} : SetGameMode(mode) /\ LivesScope'
  \/ ~gameState.inCombat /\ StartCombat(Executioner, FALSE) /\ LivesScope'
  \/ \E hit \in BOOLEAN : Attack(hit, FALSE, NoDrop) /\ LivesScope'

SpecLives == Init /\ [][NextLives]_vars

(* C34: 0 <= gameMode.survivalLives <= gameMode.maxSurvivalLives in every *)
(* reachable state, however many defeats happen in survival mode.         *)
SurvivalLivesInRange ==
  /\ 0 <= gameState.gameMode.survivalLives
  /\ gameState.gameMode.survivalLives <= MaxSurvivalLives

---------------------------------------------------------------------------
(* Specification of ownership: items are obtained, equipped, sold, sold   *)
(* in bulk and discarded.  Scope: no achievement.                         *)

OwnershipScope == gameState.achievements = {1}

NextOwnership ==
  \/ \E d \in ItemDrops : GenerateCheatItem(d) /\ OwnershipScope'
  \/ \E a \in 1..MaxWeapons : EquipWeapon(a) /\ OwnershipScope'
  \/ \E a \in 1..MaxArmor : EquipArmor(a) /\ OwnershipScope'
  \/ \E id \in 1..MaxWeapons : SellWeapon(id) /\ OwnershipScope'
  \/ \E id \in 1..MaxArmor : SellArmor(id) /\ OwnershipScope'
  \/ \E ids \in SUBSET (1..MaxWeapons) : BulkSell(ids, "weapon") /\ OwnershipScope'
  \/ \E ids \in SUBSET (1..MaxArmor) : BulkSell(ids, "armor") /\ OwnershipScope'
  \/ \E id \in 1..MaxWeapons : DiscardItem(id, "weapon") /\ OwnershipScope'
  \/ \E id \in 1..MaxArmor : DiscardItem(id, "armor") /\ OwnershipScope'

SpecOwnership == Init /\ [][NextOwnership]_vars

(* C35: whenever inventory.currentWeapon (currentArmor) is set, an item   *)
(* with the same id is present in inventory.weapons (inventory.armor).    *)
EquippedItemOwned ==
  /\ gameState.inventory.currentWeapon # NoItem
       => \E w \in gameState.inventory.weapons :
             gameState.inventory.weaponObjs[w].id = currentWeaponId(gameState)
  /\ gameState.inventory.currentArmor # NoItem
       => \E a \in gameState.inventory.armor :
             gameState.inventory.armorObjs[a].id = currentArmorId(gameState)

---------------------------------------------------------------------------
(* Entering combat, checked on the steps of the encounter specification.  *)

(* C36: startCombat invoked while an encounter is active is a no-op: it   *)
(* leaves currentEnemy with its remaining hp and hasUsedRevival (and the  *)
(* rest of the state) unchanged.                                          *)
StartCombatOnlyFromIdle ==
  [][(EncounterActive /\ StartCombatStep)
       => /\ gameState'.currentEnemy = gameState.currentEnemy
          /\ gameState'.hasUsedRevival = gameState.hasUsedRevival
          /\ gameState' = gameState]_vars

---------------------------------------------------------------------------
(* The hook of src/hooks/useGameState.ts.  Its state is the variable      *)
(* hook: gameState (null until initializeGame has run), isLoading, stored *)
(* (the text kept by AsyncStorage under STORAGE_KEY), timers (the pending *)
(* setTimeout callbacks of attack, oldest first, each with the            *)
(* playerDefense it captured), writes (the setItem calls that have been   *)
(* issued and have not completed) and wasReset (history: resetGame has    *)
(* run and initializeGame has not run since).  Of the state record the    *)
(* model keeps player, inventory, equipped, combat and cheatMode; items   *)
(* are records with their id; combatLog, statistics, achievements and     *)
(* lastSaveTime are left out.                                             *)

hookNewState ==
  [player |-> [level |-> 1, experience |-> 0, experienceToNext |-> 100,
               health |-> 100, maxHealth |-> 100, attack |-> 10, defense |-> 5,
               coins |-> 100, gems |-> 0, skillPoints |-> 0],
   inventory |-> [weapons |-> {}, armor |-> {}],
   equipped |-> [weapon |-> Null, armor |-> Null],
   combat |-> [isActive |-> FALSE, enemy |-> Null, playerTurn |-> TRUE],
   cheatMode |-> FALSE]

(* the save effect: it runs after every render with a new gameState once *)
(* loading is over, and issues a setItem of that state                    *)
saveEffect(h) ==
  IF h.gameState # Null /\ ~h.isLoading
  THEN [h EXCEPT !.writes = @ \cup {h.gameState}]
  ELSE h

(* updateGameState of the hook: the updater's result becomes the state   *)
(* and the save effect runs                                               *)
HookUpdate(s2) ==
  /\ hook.gameState # Null
  /\ hook' = saveEffect([hook EXCEPT !.gameState = s2])
  /\ UNCHANGED <<gameState, storage, now, enc>>

hookEquipWeapon(s, weapon) ==
  [s EXCEPT !.equipped.weapon = weapon,
            !.inventory.weapons = {w \in @ : w.id # weapon.id}]

hookEquipArmor(s, armor) ==
  [s EXCEPT !.equipped.armor = armor,
            !.inventory.armor = {a \in @ : a.id # armor.id}]

hookUpgradeArmor(s, armorId) ==
  LET found == {a \in s.inventory.armor : a.id = armorId}
      armor == IF found # {} THEN CHOOSE a \in found : TRUE
               ELSE IF s.equipped.armor # Null /\ s.equipped.armor.id = armorId
                    THEN s.equipped.armor
                    ELSE Null
  IN IF armor = Null THEN s
     ELSE IF s.player.coins < armor.level * 50 THEN s
     ELSE LET upgradedArmor == [armor EXCEPT !.level = @ + 1,
                                             !.defense = (@ * 11) \div 10,
                                             !.value = (@ * 12) \div 10]
          IN [s EXCEPT
                !.player.coins = @ - armor.level * 50,
                !.inventory.armor =
                   {IF a.id = armorId THEN upgradedArmor ELSE a : a \in @},
                !.equipped.armor =
                   IF @ # Null /\ @.id = armorId THEN upgradedArmor ELSE @]

hookToggleCheat(s) == [s EXCEPT !.cheatMode = ~@]

(* newItem is what generateWeapon or generateArmor returned *)
hookGenerateCheatItem(s, type, newItem) ==
  IF ~s.cheatMode THEN s
  ELSE IF type = "weapon"
       THEN [s EXCEPT !.inventory.weapons = @ \cup {newItem}]
       ELSE [s EXCEPT !.inventory.armor = @ \cup {newItem}]

(* enemy is what generateEnemy returned *)
hookStartCombat(s, enemy) ==
  [s EXCEPT !.combat = [isActive |-> TRUE, enemy |-> enemy, playerTurn |-> TRUE]]

hookAttackGuard(s) ==
  s.combat.isActive /\ s.combat.enemy # Null /\ s.combat.playerTurn

hookPlayerAttack(s) ==
  s.player.attack + (IF s.equipped.weapon = Null THEN 0 ELSE s.equipped.weapon.attack)

hookPlayerDefense(s) ==
  s.player.defense + (IF s.equipped.armor = Null THEN 0 ELSE s.equipped.armor.defense)

hookNewEnemyHealth(s) ==
  s.combat.enemy.health - Max(1, hookPlayerAttack(s) - s.combat.enemy.defense)

(* the attack updater sets a timer when the guard passes and the enemy   *)
(* survives                                                               *)
hookAttackSetsTimer(s) == hookAttackGuard(s) /\ hookNewEnemyHealth(s) > 0

(* gemGain is 1 when Math.random() < 0.1 *)
hookAttack(s, gemGain) ==
  IF ~hookAttackGuard(s) THEN s
  ELSE IF hookNewEnemyHealth(s) <= 0
       THEN LET newExp == s.player.experience + s.combat.enemy.expReward
                up == newExp >= s.player.experienceToNext
            IN [s EXCEPT
                  !.player.experience = newExp,
                  !.player.level = IF up THEN @ + 1 ELSE @,
                  !.player.experienceToNext =
                     IF up THEN (s.player.level + 1) * 100 ELSE @,
                  !.player.coins = @ + s.combat.enemy.coinReward,
                  !.player.gems = @ + gemGain,
                  !.player.skillPoints = IF up THEN @ + 1 ELSE @,
                  !.combat = [isActive |-> FALSE, enemy |-> Null,
                              playerTurn |-> TRUE]]
       ELSE [s EXCEPT !.combat.enemy.health = hookNewEnemyHealth(s),
                      !.combat.playerTurn = FALSE]

hookEnemyDamage(s, playerDefense) ==
  Max(1, s.combat.enemy.attack - playerDefense)

(* the callback of the timer, run on the state of the moment with the    *)
(* playerDefense its attack captured                                      *)
hookEnemyTurn(s, playerDefense) ==
  IF ~s.combat.isActive \/ s.combat.playerTurn THEN s
  ELSE LET newPlayerHealth == s.player.health - hookEnemyDamage(s, playerDefense)
       IN IF newPlayerHealth <= 0
          THEN [s EXCEPT !.player.health = s.player.maxHealth,
                         !.combat = [isActive |-> FALSE, enemy |-> Null,
                                     playerTurn |-> TRUE]]
          ELSE [s EXCEPT !.player.health = Max(0, newPlayerHealth),
                         !.combat.playerTurn = TRUE]

(* an updater's result becomes the state, timers2 are the pending timers *)
(* after it                                                               *)
HookUpdateTimers(s2, timers2) ==
  /\ hook.gameState # Null
  /\ hook' = saveEffect([hook EXCEPT !.gameState = s2, !.timers = timers2])
  /\ UNCHANGED <<gameState, storage, now, enc>>

(* the mount effect: the stored state, or a new state whose setItem is   *)
(* awaited before loading ends; the save effect then runs on the result  *)
InitializeGame ==
  /\ hook.isLoading
  /\ hook' = saveEffect(
       [hook EXCEPT !.gameState = IF hook.stored # Null THEN hook.stored
                                  ELSE hookNewState,
                    !.stored = IF hook.stored # Null THEN @ ELSE hookNewState,
                    !.isLoading = FALSE,
                    !.wasReset = FALSE])
  /\ UNCHANGED <<gameState, storage, now, enc>>

(* a setItem that was issued completes *)
WriteLands(w) ==
  /\ w \in hook.writes
  /\ hook' = [hook EXCEPT !.stored = w, !.writes = @ \ {w}]
  /\ UNCHANGED <<gameState, storage, now, enc>>

HookEquipWeapon(weapon) ==
  /\ hook.gameState # Null
  /\ weapon \in hook.gameState.inventory.weapons
  /\ HookUpdate(hookEquipWeapon(hook.gameState, weapon))

HookEquipArmor(armor) ==
  /\ hook.gameState # Null
  /\ armor \in hook.gameState.inventory.armor
  /\ HookUpdate(hookEquipArmor(hook.gameState, armor))

HookUpgradeArmor(armorId) ==
  /\ hook.gameState # Null
  /\ HookUpdate(hookUpgradeArmor(hook.gameState, armorId))

HookToggleCheat ==
  /\ hook.gameState # Null
  /\ HookUpdate(hookToggleCheat(hook.gameState))

(* the ids of the items the player holds *)
heldIds(s) ==
  {w.id : w \in s.inventory.weapons} \cup {a.id : a \in s.inventory.armor}
  \cup (IF s.equipped.weapon = Null THEN {} ELSE {s.equipped.weapon.id})
  \cup (IF s.equipped.armor = Null THEN {} ELSE {s.equipped.armor.id})

(* a generated item has an id of its own *)
HookGenerateCheatItem(type, newItem) ==
  /\ hook.gameState # Null
  /\ newItem.id \notin heldIds(hook.gameState)
  /\ HookUpdate(hookGenerateCheatItem(hook.gameState, type, newItem))

HookStartCombat(enemy) ==
  /\ hook.gameState # Null
  /\ HookUpdate(hookStartCombat(hook.gameState, enemy))

HookAttack(gemGain) ==
  /\ hook.gameState # Null
  /\ HookUpdateTimers(hookAttack(hook.gameState, gemGain),
                      IF hookAttackSetsTimer(hook.gameState)
                      THEN Append(hook.timers, hookPlayerDefense(hook.gameState))
                      ELSE hook.timers)

(* the oldest timer fires *)
TimerFires ==
  /\ hook.gameState # Null
  /\ hook.timers # <<>>
  /\ HookUpdateTimers(hookEnemyTurn(hook.gameState, Head(hook.timers)),
                      Tail(hook.timers))

(* the page is loaded again: state and timers are gone; of the setItem   *)
(* calls still under way, any may complete later and any may be dropped  *)
(* with the page                                                          *)
Reload ==
  /\ hook.gameState # Null
  /\ \E kept \in SUBSET hook.writes :
       hook' = [hook EXCEPT !.gameState = Null, !.isLoading = TRUE,
                            !.timers = <<>>, !.writes = kept]
  /\ UNCHANGED <<gameState, storage, now, enc>>

(* resetGame: removeItem is awaited, then window.location.reload(); the  *)
(* setItem calls issued before are not awaited                            *)
HookResetGame ==
  /\ hook.gameState # Null
  /\ \E kept \in SUBSET hook.writes :
       hook' = [hook EXCEPT !.stored = Null, !.gameState = Null,
                            !.isLoading = TRUE, !.timers = <<>>,
                            !.writes = kept, !.wasReset = TRUE]
  /\ UNCHANGED <<gameState, storage, now, enc>>

---------------------------------------------------------------------------
(* Specification of the turns of the second hook: the game is            *)
(* initialized, an armor is generated, equipped and upgraded, encounters  *)
(* are started, the player attacks, the timers fire, the saves complete.  *)
(* Scope: two victories, two pending timers, one save under way.          *)

HookEnemies ==
  { [health |-> 25, attack |-> 12, defense |-> 0, expReward |-> 20, coinReward |-> 10],
    [health |-> 15, attack |-> 120, defense |-> 0, expReward |-> 20, coinReward |-> 10] }

HookArmors == {[id |-> 1, defense |-> 10, level |-> 1, value |-> 10]}

MaxTimers == 2

TurnsScope ==
  /\ Cardinality(hook.writes) <= 1
  /\ Len(hook.timers) <= MaxTimers
  /\ hook.gameState # Null => hook.gameState.player.experience <= 40

NextTurns ==
  \/ InitializeGame /\ TurnsScope'
  \/ \E w \in hook.writes : WriteLands(w)
  \/ HookToggleCheat /\ TurnsScope'
  \/ \E a \in HookArmors : HookGenerateCheatItem("armor", a) /\ TurnsScope'
  \/ /\ hook.gameState # Null
     /\ \E a \in hook.gameState.inventory.armor : HookEquipArmor(a) /\ TurnsScope'
  \/ \E a \in HookArmors : HookUpgradeArmor(a.id) /\ TurnsScope'
  \/ \E e \in HookEnemies : HookStartCombat(e) /\ TurnsScope'
  \/ HookAttack(0) /\ TurnsScope'
  \/ TimerFires /\ TurnsScope'

SpecTurns == Init /\ [][NextTurns]_vars

(* a timer set by setTimeout fires whatever else happens meanwhile, and the
   saves complete *)
SpecTurnsFair ==
  /\ SpecTurns
  /\ SF_vars(TimerFires /\ TurnsScope')
  /\ WF_vars(\E w \in hook.writes : WriteLands(w))

(* a step in which the oldest timer fires *)
TimerStep ==
  /\ hook.gameState # Null
  /\ hook.timers # <<>>
  /\ hook'.timers = Tail(hook.timers)
  /\ hook'.gameState = hookEnemyTurn(hook.gameState, Head(hook.timers))

WaitingForEnemy ==
  /\ hook.gameState # Null
  /\ hook.gameState.combat.isActive
  /\ ~hook.gameState.combat.playerTurn

(* C37: after a player attack that leaves the enemy alive playerTurn is   *)
(* false and stays false, with the combat as the attack left it, until    *)
(* the scheduled enemy turn runs; and an enemy turn changes nothing when  *)
(* combat is inactive.                                                    *)
TurnsAlternate ==
  [][/\ WaitingForEnemy
          => \/ hook'.gameState.combat = hook.gameState.combat
             \/ TimerStep
     /\ (TimerStep /\ ~hook.gameState.combat.isActive)
          => hook'.gameState = hook.gameState]_vars

(* the liveness part of C37: under the fairness of the timers, waiting    *)
(* for the enemy leads to the player's turn                               *)
EnemyTurnEventuallyRuns ==
  WaitingForEnemy ~> (hook.gameState # Null /\ hook.gameState.combat.playerTurn)

(* C38: the damage of each enemy turn that is applied is                  *)
(* max(1, enemy.attack - (player.defense + defense of the equipped        *)
(* armor)) on the state at the moment the timer fires.                    *)
EnemyDamageUsesCurrentDefense ==
  [][(TimerStep /\ WaitingForEnemy)
       => hook'.gameState
            = hookEnemyTurn(hook.gameState, hookPlayerDefense(hook.gameState))]_vars

---------------------------------------------------------------------------
(* Specification of the gear of the second hook: items are generated in  *)
(* cheat mode and equipped, the saves complete.                           *)

(* what generateWeapon and generateArmor return here *)
GearWeapons ==
  { [id |-> 11, attack |-> 8, level |-> 1, value |-> 10],
    [id |-> 12, attack |-> 14, level |-> 1, value |-> 20] }

GearArmors ==
  { [id |-> 1, defense |-> 10, level |-> 1, value |-> 10],
    [id |-> 2, defense |-> 6, level |-> 1, value |-> 20] }

GearScope == Cardinality(hook.writes) <= 1

NextGear ==
  \/ InitializeGame /\ GearScope'
  \/ \E w \in hook.writes : WriteLands(w)
  \/ HookToggleCheat /\ GearScope'
  \/ \E w \in GearWeapons : HookGenerateCheatItem("weapon", w) /\ GearScope'
  \/ \E a \in GearArmors : HookGenerateCheatItem("armor", a) /\ GearScope'
  \/ /\ hook.gameState # Null
     /\ \E w \in hook.gameState.inventory.weapons : HookEquipWeapon(w) /\ GearScope'
  \/ /\ hook.gameState # Null
     /\ \E a \in hook.gameState.inventory.armor : HookEquipArmor(a) /\ GearScope'

SpecGear == Init /\ [][NextGear]_vars

(* a step of equipWeapon or equipArmor on an item of the inventory *)
EquipStep ==
  /\ hook.gameState # Null
  /\ hook'.gameState # Null
  /\ \/ \E w \in hook.gameState.inventory.weapons :
          hook'.gameState = hookEquipWeapon(hook.gameState, w)
     \/ \E a \in hook.gameState.inventory.armor :
          hook'.gameState = hookEquipArmor(hook.gameState, a)

(* C39: equipWeapon and equipArmor conserve the player's items: the ids
   in the inventory together with the equipped slots are the same before
   and after the call *)
EquipConservesItems ==
  [][EquipStep => heldIds(hook'.gameState) = heldIds(hook.gameState)]_vars

---------------------------------------------------------------------------
(* Specification of the reset of the second hook: the game is            *)
(* initialized, the state changes, the saves complete in their own time,  *)
(* the page is loaded again, the game is reset.                           *)

MaxWrites == 2

ResetScope == Cardinality(hook.writes) <= MaxWrites

NextReset ==
  \/ InitializeGame /\ ResetScope'
  \/ \E w \in hook.writes : WriteLands(w)
  \/ HookToggleCheat /\ ResetScope'
  \/ \E e \in HookEnemies : HookStartCombat(e) /\ ResetScope'
  \/ Reload
  \/ HookResetGame

SpecReset == Init /\ [][NextReset]_vars

(* the load that follows a reset *)
LoadAfterReset == hook.wasReset /\ hook.isLoading /\ ~hook'.isLoading

(* C40: once resetGame has removed the stored snapshot and the page has
   been loaded again, the state that is loaded is the new initial state,
   whatever saves were under way when resetGame ran *)
ResetIsEffective ==
  [][LoadAfterReset => hook'.gameState = hookNewState]_vars

====
